---- MODULE Spec2Model ----
(***************************************************************************)
(* Model of the statement codecs of rust_fin_parser (crate `parser`):      *)
(* MT940, CSV and camt.053 decode into the canonical Statement and the     *)
(* three encoders Statement::write_mt940 / write_csv / write_camt053.      *)
(*                                                                         *)
(* Text is a sequence of one-character strings.  Option<T> is a sequence   *)
(* of length 0 (None) or 1 (Some).  Result<T, ParseError> is a record      *)
(* [ok, val, err].                                                         *)
(***************************************************************************)
EXTENDS Integers, Sequences, FiniteSets, TLC

VARIABLES pc, doc, res, first, prev, path, origin

vars == <<pc, doc, res, first, prev, path, origin>>

(***************************************************************************)
(* Option and Result                                                       *)
(***************************************************************************)
None == <<>>

Some(x) == <<x>>

IsSome(o) == Len(o) = 1

Ok(v) == [ok |-> TRUE, val |-> v, err |-> "none"]

Err(e) == [ok |-> FALSE, val |-> <<>>, err |-> e]

\* v under the name that F gives it: v is computed once, where it is handed over
Bind(v, F(_)) == F(v)

\* the least member of a non-empty set of numbers
Least(S) == CHOOSE i \in S : \A j \in S : i <= j

(***************************************************************************)
(* str: characters, trimming, searching, splitting                         *)
(***************************************************************************)
DigitChars == <<"0", "1", "2", "3", "4", "5", "6", "7", "8", "9">>

IsAsciiDigit(c) == \E i \in 1..10 : DigitChars[i] = c

DigitVal(c) == (CHOOSE i \in 1..10 : DigitChars[i] = c) - 1

UpperSeq == <<"A", "B", "C", "D", "E", "F", "G", "H", "I", "J", "K", "L", "M", "N", "O", "P", "Q", "R", "S", "T", "U", "V", "W", "X", "Y", "Z">>

LowerSeq == <<"a", "b", "c", "d", "e", "f", "g", "h", "i", "j", "k", "l", "m", "n", "o", "p", "q", "r", "s", "t", "u", "v", "w", "x", "y", "z">>

UpperChars == {UpperSeq[i] : i \in 1..26}

LowerChars == {LowerSeq[i] : i \in 1..26}

IsAsciiAlphabetic(c) == c \in UpperChars \/ c \in LowerChars

IsAsciiAlphanumeric(c) == IsAsciiAlphabetic(c) \/ IsAsciiDigit(c)

WhitespaceChars == {" ", "\t", "\n", "\r"}

IsWhitespace(c) == c \in WhitespaceChars

\* str::trim_start_matches(|c| c in set)
RECURSIVE TrimStartIn(_, _)
TrimStartIn(s, set) ==
    IF s # <<>> /\ Head(s) \in set THEN TrimStartIn(Tail(s), set) ELSE s

\* str::trim_end_matches(|c| c in set)
RECURSIVE TrimEndIn(_, _)
TrimEndIn(s, set) ==
    IF s # <<>> /\ s[Len(s)] \in set THEN TrimEndIn(SubSeq(s, 1, Len(s) - 1), set) ELSE s

TrimStart(s) == TrimStartIn(s, WhitespaceChars)

TrimEnd(s) == TrimEndIn(s, WhitespaceChars)

Trim(s) == TrimEnd(TrimStart(s))

IsBlank(s) == Trim(s) = <<>>

StartsWith(s, p) == Len(s) >= Len(p) /\ SubSeq(s, 1, Len(p)) = p

\* str::find: the 0-based offset of the first occurrence, None if there is none
Find(s, p) ==
    LET hits == {i \in 0..(Len(s) - Len(p)) : SubSeq(s, i + 1, i + Len(p)) = p}
    IN IF hits = {} THEN None
       ELSE Some(CHOOSE i \in hits : \A j \in hits : i <= j)

Contains(s, p) == IsSome(Find(s, p))

\* s[from..] with a 0-based offset
From(s, from) == SubSeq(s, from + 1, Len(s))

RECURSIVE Replace(_, _, _)
Replace(s, c, by) ==
    IF s = <<>> THEN <<>>
    ELSE (IF Head(s) = c THEN by ELSE <<Head(s)>>) \o Replace(Tail(s), c, by)

\* str::split(sep) for a one-character separator: always at least one piece
RECURSIVE SplitChar(_, _)
SplitChar(s, sep) ==
    LET hit == Find(s, <<sep>>)
    IN IF ~IsSome(hit) THEN <<s>>
       ELSE <<SubSeq(s, 1, hit[1])>> \o SplitChar(From(s, hit[1] + 1), sep)

\* str::split_whitespace: the non-empty runs of non-whitespace characters
RECURSIVE SplitWhitespace(_)
SplitWhitespace(s) ==
    LET t == TrimStart(s)
        ends == {i \in 1..Len(t) : IsWhitespace(t[i])}
        e == IF ends = {} THEN Len(t) + 1 ELSE CHOOSE i \in ends : \A j \in ends : i <= j
    IN IF t = <<>> THEN <<>>
       ELSE <<SubSeq(t, 1, e - 1)>> \o SplitWhitespace(From(t, e - 1))

\* [String]::join(sep)
RECURSIVE Join(_, _)
Join(parts, sep) ==
    IF parts = <<>> THEN <<>>
    ELSE IF Len(parts) = 1 THEN parts[1]
    ELSE parts[1] \o sep \o Join(Tail(parts), sep)

ToUpperChar(c) ==
    IF c \in LowerChars THEN UpperSeq[CHOOSE i \in 1..26 : LowerSeq[i] = c] ELSE c

ToUppercase(s) == [i \in 1..Len(s) |-> ToUpperChar(s[i])]

(***************************************************************************)
(* Integers as text                                                        *)
(***************************************************************************)
RECURSIVE DigitsValue(_)
DigitsValue(s) ==
    IF s = <<>> THEN 0 ELSE DigitsValue(SubSeq(s, 1, Len(s) - 1)) * 10 + DigitVal(s[Len(s)])

AllDigits(s) == \A i \in 1..Len(s) : IsAsciiDigit(s[i])

\* str::parse::<u64>() / ::<u32>(): an optional '+', then one or more digits
ParseUnsigned(s) ==
    LET body == IF s # <<>> /\ Head(s) = "+" THEN Tail(s) ELSE s
    IN IF body # <<>> /\ AllDigits(body) THEN Ok(DigitsValue(body)) ELSE Err("Int")

\* str::parse::<i32>(): an optional sign, then one or more digits
ParseSigned(s) ==
    LET neg == s # <<>> /\ Head(s) = "-"
        body == IF s # <<>> /\ Head(s) \in {"+", "-"} THEN Tail(s) ELSE s
    IN IF body # <<>> /\ AllDigits(body)
       THEN Ok(IF neg THEN 0 - DigitsValue(body) ELSE DigitsValue(body))
       ELSE Err("Int")

RECURSIVE FormatNat(_)
FormatNat(n) ==
    IF n < 10 THEN <<DigitChars[n + 1]>> ELSE FormatNat(n \div 10) \o <<DigitChars[(n % 10) + 1]>>

\* {n:02}: at least two digits
Format02(n) == IF n < 10 THEN <<"0">> \o FormatNat(n) ELSE FormatNat(n)

\* {n:04}: at least four digits (chrono %Y of a year 0..9999)
Format04(n) ==
    IF n < 10 THEN <<"0", "0", "0">> \o FormatNat(n)
    ELSE IF n < 100 THEN <<"0", "0">> \o FormatNat(n)
    ELSE IF n < 1000 THEN <<"0">> \o FormatNat(n)
    ELSE FormatNat(n)

(***************************************************************************)
(* chrono::NaiveDate                                                       *)
(***************************************************************************)
IsLeap(y) == (y % 4 = 0 /\ y % 100 # 0) \/ y % 400 = 0

DaysInMonth(y, m) ==
    IF m \in {4, 6, 9, 11} THEN 30
    ELSE IF m = 2 THEN (IF IsLeap(y) THEN 29 ELSE 28)
    ELSE 31

\* NaiveDate::from_ymd_opt
FromYmdOpt(y, m, d) ==
    IF m \in 1..12 /\ d >= 1 /\ d <= DaysInMonth(y, m)
    THEN Some([y |-> y, m |-> m, d |-> d])
    ELSE None

DateOrd(dt) == dt.y * 10000 + dt.m * 100 + dt.d

DateMax(a, b) == IF DateOrd(a) >= DateOrd(b) THEN a ELSE b

DateMin(a, b) == IF DateOrd(a) <= DateOrd(b) THEN a ELSE b

(***************************************************************************)
(* utils.rs                                                                *)
(***************************************************************************)
\* Words that the code only ever compares, searches for or copies as a whole
\* (currency names, column labels, month names) are single symbols of the text,
\* written in Latin letters:
\*   "Rossiyskiy rubl" = "Российский рубль", "Dollar SSHA" = "Доллар США",
\*   "Evro" = "Евро", "Kitayskiy yuan" = "Китайский юань".
WordUpper == <<"Rossiyskiy rubl", "Dollar SSHA", "Evro", "Kitayskiy yuan">>

WordLower == <<"rossiyskiy rubl", "dollar ssha", "evro", "kitayskiy yuan">>

ToLowerChar(c) ==
    IF c \in UpperChars THEN LowerSeq[CHOOSE i \in 1..26 : UpperSeq[i] = c]
    ELSE IF \E i \in 1..Len(WordUpper) : WordUpper[i] = c
    THEN WordLower[CHOOSE i \in 1..Len(WordUpper) : WordUpper[i] = c]
    ELSE c

ToLowercase(s) == [i \in 1..Len(s) |-> ToLowerChar(s[i])]

Currency(tag, text) == [tag |-> tag, text |-> text]

KnownCurrencies == {"RUB", "EUR", "USD", "CNY"}

parse_currency(raw) ==
    Bind(Trim(raw), LAMBDA s :
    Bind(ToLowercase(s), LAMBDA lower :
        IF lower \in {<<"rossiyskiy rubl">>, <<"rubl">>, <<"rub.">>, <<"r", "u", "b">>, <<"r", "u", "r">>}
        THEN Currency("RUB", <<>>)
        ELSE IF lower \in {<<"amerikanskiy dollar">>, <<"dollar ssha">>, <<"u", "s", "d">>}
        THEN Currency("USD", <<>>)
        ELSE IF lower \in {<<"evro">>, <<"e", "u", "r">>}
        THEN Currency("EUR", <<>>)
        ELSE IF lower \in {<<"kitayskiy yuan">>, <<"yuan">>, <<"c", "n", "y">>}
        THEN Currency("CNY", <<>>)
        ELSE Currency("Other", s)))

\* the fractional part of an amount: no digit, one digit (tenths) or two
DecPart(dec_text) ==
    IF Len(dec_text) = 0 THEN Ok(0)
    ELSE IF Len(dec_text) = 1
    THEN (IF IsAsciiDigit(dec_text[1])
          THEN Ok(DigitVal(dec_text[1]) * 10)
          ELSE Err("InvalidAmount"))
    ELSE IF Len(dec_text) = 2 THEN ParseUnsigned(dec_text)
    ELSE Err("InvalidAmount")

parse_amount(raw) ==
    Bind(Replace(Trim(raw), " ", <<>>), LAMBDA stripped :
    Bind(IF Contains(raw, <<",">>)
         THEN (IF Contains(raw, <<".">>)
               THEN Replace(stripped, ",", <<>>)
               ELSE Replace(stripped, ",", <<".">>))
         ELSE stripped, LAMBDA cleaned :
    Bind(SplitChar(cleaned, "."), LAMBDA split :
    Bind(ParseUnsigned(split[1]), LAMBDA int_part :
    Bind(DecPart(IF Len(split) >= 2 THEN split[2] ELSE <<>>), LAMBDA dec_part :
        IF cleaned = <<>> THEN Err("InvalidAmount")
        ELSE IF Head(cleaned) = "-" THEN Err("InvalidAmount")
        ELSE IF Len(split) >= 3 THEN Err("InvalidAmount")
        ELSE IF ~int_part.ok THEN int_part
        ELSE IF ~dec_part.ok THEN dec_part
        ELSE Ok(int_part.val * 100 + dec_part.val))))))

\* parse_signed_balance without the match on the direction
parse_signed_balance_unsigned(raw, direction) ==
    Bind(parse_amount(raw), LAMBDA minor :
        IF ~minor.ok THEN minor ELSE Ok(minor.val))

parse_signed_balance(raw, direction) ==
    Bind(parse_amount(raw), LAMBDA minor :
        IF ~minor.ok THEN minor
        ELSE IF direction = "Credit" THEN Ok(minor.val) ELSE Ok(0 - minor.val))

(***************************************************************************)
(* serialization/common.rs                                                 *)
(***************************************************************************)
Abs(v) == IF v < 0 THEN 0 - v ELSE v

\* format_minor_units with the hundredths as {} instead of {:02}
format_minor_units_unpadded(value, decimal_separator) ==
    FormatNat(Abs(value) \div 100) \o <<decimal_separator>> \o FormatNat(Abs(value) % 100)

format_minor_units(value, decimal_separator) ==
    LET v == Abs(value)
    IN FormatNat(v \div 100) \o <<decimal_separator>> \o Format02(v % 100)

(***************************************************************************)
(* model.rs                                                                *)
(***************************************************************************)
Transaction(booking_date, value_date, amount, direction, description, counterparty, counterparty_name) ==
    [booking_date |-> booking_date, value_date |-> value_date, amount |-> amount,
     direction |-> direction, description |-> description,
     counterparty |-> counterparty, counterparty_name |-> counterparty_name]

Statement(account_id, account_name, currency, opening_balance, closing_balance, transactions, period_from, period_until) ==
    [account_id |-> account_id, account_name |-> account_name, currency |-> currency,
     opening_balance |-> opening_balance, closing_balance |-> closing_balance,
     transactions |-> transactions, period_from |-> period_from, period_until |-> period_until]

(***************************************************************************)
(* mt940/utils.rs                                                          *)
(***************************************************************************)
\* split_tag_line that takes a tag only when it starts with a digit
split_tag_line_numeric(line0) ==
    Bind(TrimStart(line0), LAMBDA line :
    Bind(Find(Tail(line), <<":">>), LAMBDA tag_end_pos :
        IF line = <<>> \/ Head(line) # ":" THEN Err("Mt940Tag")
        ELSE IF ~IsSome(tag_end_pos) THEN Err("Mt940Tag")
        ELSE IF tag_end_pos[1] = 0 \/ ~IsAsciiDigit(Head(Tail(line))) THEN Err("Mt940Tag")
        ELSE Ok(<<Trim(SubSeq(Tail(line), 1, tag_end_pos[1])),
                  From(Tail(line), tag_end_pos[1] + 1)>>)))

\* split_tag_line: Ok(<<tag, value>>) or Err("Mt940Tag")
split_tag_line(line0) ==
    Bind(TrimStart(line0), LAMBDA line :
    Bind(Find(Tail(line), <<":">>), LAMBDA tag_end_pos :
        IF line = <<>> \/ Head(line) # ":" THEN Err("Mt940Tag")
        ELSE IF ~IsSome(tag_end_pos) THEN Err("Mt940Tag")
        ELSE Ok(<<Trim(SubSeq(Tail(line), 1, tag_end_pos[1])),
                  From(Tail(line), tag_end_pos[1] + 1)>>)))

parse_mt940_yy_mm_dd(s) ==
    Bind(ParseSigned(SubSeq(s, 1, 2)), LAMBDA yy :
    Bind(ParseUnsigned(SubSeq(s, 3, 4)), LAMBDA mm :
    Bind(ParseUnsigned(SubSeq(s, 5, 6)), LAMBDA dd :
    Bind(FromYmdOpt(IF yy.val >= 80 THEN 1900 + yy.val ELSE 2000 + yy.val, mm.val, dd.val),
         LAMBDA date :
        IF Len(s) # 6 THEN Err("BadInput")
        ELSE IF ~yy.ok \/ ~mm.ok \/ ~dd.ok THEN Err("BadInput")
        ELSE IF ~IsSome(date) THEN Err("BadInput")
        ELSE Ok(date[1])))))

\* NaiveDate::from_ymd_opt(..).ok_or(BadInput) once month and day are parsed
BookingDateOf(year, mm, dd) ==
    Bind(FromYmdOpt(year, mm.val, dd.val), LAMBDA date :
        IF ~mm.ok \/ ~dd.ok THEN Err("BadInput")
        ELSE IF ~IsSome(date) THEN Err("BadInput")
        ELSE Ok(date[1]))

\* the booking date taken to be the value date, whatever the entry date
derive_booking_date_as_value(value_date, entry_date) == Ok(value_date)

derive_booking_date(value_date, entry_date) ==
    IF ~IsSome(entry_date) THEN Ok(value_date)
    ELSE IF Len(entry_date[1]) = 4
    THEN BookingDateOf(value_date.y, ParseUnsigned(SubSeq(entry_date[1], 1, 2)),
                       ParseUnsigned(SubSeq(entry_date[1], 3, 4)))
    ELSE IF Len(entry_date[1]) = 2
    THEN BookingDateOf(value_date.y, Ok(value_date.m), ParseUnsigned(entry_date[1]))
    ELSE Err("BadInput")

\* IBAN_RE: (?i)^[A-Z]{2}\d{2}[A-Z0-9]{11,30}$
IBAN_RE_is_match(s) ==
    /\ Len(s) >= 15
    /\ Len(s) <= 34
    /\ IsAsciiAlphabetic(s[1])
    /\ IsAsciiAlphabetic(s[2])
    /\ IsAsciiDigit(s[3])
    /\ IsAsciiDigit(s[4])
    /\ \A i \in 5..Len(s) : IsAsciiAlphanumeric(s[i])

RECURSIVE TrimStartNonAlnum(_)
TrimStartNonAlnum(s) ==
    IF s # <<>> /\ ~IsAsciiAlphanumeric(Head(s)) THEN TrimStartNonAlnum(Tail(s)) ELSE s

RECURSIVE TrimEndNonAlnum(_)
TrimEndNonAlnum(s) ==
    IF s # <<>> /\ ~IsAsciiAlphanumeric(s[Len(s)])
    THEN TrimEndNonAlnum(SubSeq(s, 1, Len(s) - 1)) ELSE s

normalize_and_check_iban(token) ==
    Bind(ToUppercase(TrimEndNonAlnum(TrimStartNonAlnum(token))), LAMBDA cleaned :
        IF cleaned = <<>> THEN None
        ELSE IF IBAN_RE_is_match(cleaned) THEN Some(cleaned)
        ELSE None)

\* the positions of the tokens that are IBANs
IbanTokens(tokens) == {i \in 1..Len(tokens) : IsSome(normalize_and_check_iban(tokens[i]))}

find_iban_in_line(line) ==
    Bind(SplitWhitespace(line), LAMBDA tokens :
    Bind(IbanTokens(tokens), LAMBDA hits :
        IF hits = {} THEN None ELSE normalize_and_check_iban(tokens[Least(hits)])))

\* Some(<<iban, Option name>>) or None
find_iban_and_name_in_line(line) ==
    Bind(SplitWhitespace(line), LAMBDA tokens :
    Bind(IbanTokens(tokens), LAMBDA hits :
    Bind(Least(hits), LAMBDA idx :
    Bind(Trim(Join(SubSeq(tokens, idx + 1, Len(tokens)), <<" ">>)), LAMBDA rest :
        IF hits = {} THEN None
        ELSE Some(<<normalize_and_check_iban(tokens[idx])[1],
                    IF idx < Len(tokens) /\ rest # <<>> THEN Some(rest) ELSE None>>)))))

\* the first line after the one with the IBAN that is not blank and holds no IBAN
NameAfter(lines, iban_idx) ==
    Bind({i \in (iban_idx + 1)..Len(lines) :
             /\ Trim(lines[i]) # <<>>
             /\ ~IsSome(find_iban_in_line(Trim(lines[i])))}, LAMBDA names :
        IF names = {} THEN None ELSE Some(Trim(lines[Least(names)])))

find_iban_and_name_in_lines(lines) ==
    Bind({i \in 1..Len(lines) :
             Bind(find_iban_and_name_in_line(lines[i]),
                  LAMBDA found : IsSome(found) /\ IsSome(found[1][2]))}, LAMBDA both :
    Bind({i \in 1..Len(lines) : IsSome(find_iban_in_line(lines[i]))}, LAMBDA ibans :
        IF both # {} THEN find_iban_and_name_in_line(lines[Least(both)])
        ELSE IF ibans = {} THEN None
        ELSE Some(<<find_iban_in_line(lines[Least(ibans)])[1],
                    NameAfter(lines, Least(ibans))>>)))

\* take_while(rest, digit or ',' or '.'): the length of the run
RECURSIVE AmountRunLen(_)
AmountRunLen(s) ==
    IF s # <<>> /\ (IsAsciiDigit(Head(s)) \/ Head(s) \in {",", "."})
    THEN 1 + AmountRunLen(Tail(s)) ELSE 0

\* Ok([dc_mark, funds_code, amount, rest]) or Err("BadInput")
parse_dc_and_amount(rest0) ==
    Bind(/\ Tail(rest0) # <<>>
         /\ IsAsciiAlphabetic(Head(Tail(rest0)))
         /\ Head(Tail(rest0)) \notin {"C", "D"}, LAMBDA has_funds :
    Bind(IF has_funds THEN Tail(Tail(rest0)) ELSE Tail(rest0), LAMBDA rest2 :
    Bind(AmountRunLen(rest2), LAMBDA n :
        IF rest0 = <<>> THEN Err("BadInput")
        ELSE IF n = 0 THEN Err("BadInput")
        ELSE Ok([dc_mark |-> Head(rest0),
                 funds_code |-> IF has_funds THEN Some(Head(Tail(rest0))) ELSE None,
                 amount |-> SubSeq(rest2, 1, n), rest |-> From(rest2, n)]))))

(***************************************************************************)
(* mt940.rs                                                                *)
(***************************************************************************)
\* Ok(Mt940Balance) or Err("BadInput")
parse_balance(value0) ==
    Bind(Trim(value0), LAMBDA value :
        IF Len(value) < 11 THEN Err("BadInput")
        ELSE Ok([dc_mark |-> Head(value),
                 date |-> SubSeq(Tail(value), 1, 6),
                 currency |-> SubSeq(Tail(value), 7, 9),
                 amount |-> Trim(From(Tail(value), 9))]))

\* Mt940Entry::from_61_line
from_61_line(value0, raw_61) ==
    Bind(Trim(value0), LAMBDA value :
    Bind(Len(value) >= 10 /\ AllDigits(SubSeq(value, 7, 10)), LAMBDA has_entry_date :
    Bind(parse_dc_and_amount(From(value, IF has_entry_date THEN 10 ELSE 6)), LAMBDA dca :
    Bind(dca.val.rest, LAMBDA rest0 :
    Bind(Len(rest0) >= 4 /\ \A i \in 1..4 : IsAsciiAlphabetic(rest0[i]), LAMBDA has_type :
    Bind(IF has_type THEN TrimStart(From(rest0, 4)) ELSE rest0, LAMBDA rest :
    Bind(Find(rest, <<"/", "/">>), LAMBDA pos :
    Bind(From(rest, pos[1] + 2), LAMBDA after :
    Bind(Find(after, <<" ">>), LAMBDA space_pos :
    Bind(Trim(From(after, space_pos[1])), LAMBDA extra :
        IF Len(value) < 8 THEN Err("BadInput")
        ELSE IF ~dca.ok THEN dca
        ELSE Ok([raw_61 |-> raw_61,
                 value_date |-> SubSeq(value, 1, 6),
                 entry_date |-> IF has_entry_date THEN Some(SubSeq(value, 7, 10)) ELSE None,
                 dc_mark |-> dca.val.dc_mark,
                 funds_code |-> dca.val.funds_code,
                 amount |-> dca.val.amount,
                 transaction_type |-> IF has_type THEN Some(SubSeq(rest0, 1, 4)) ELSE None,
                 customer_reference |->
                     IF IsSome(pos) THEN Some(Trim(SubSeq(rest, 1, pos[1])))
                     ELSE IF rest # <<>> THEN Some(Trim(rest))
                     ELSE None,
                 bank_reference |->
                     IF ~IsSome(pos) THEN None
                     ELSE IF IsSome(space_pos) THEN Some(Trim(SubSeq(after, 1, space_pos[1])))
                     ELSE IF Trim(after) # <<>> THEN Some(Trim(after))
                     ELSE None,
                 extra_details |->
                     IF IsSome(pos) /\ IsSome(space_pos) /\ extra # <<>>
                     THEN Some(extra) ELSE None,
                 info |-> <<>>])))))))))))

\* push_info_line without the trim
push_info_line_untrimmed(entry, line) == [entry EXCEPT !.info = Append(@, line)]

\* Mt940Entry::push_info_line
push_info_line(entry, line) == [entry EXCEPT !.info = Append(@, Trim(line))]

\* The loop state of Mt940Message::from_string_lines before any line is read
MessageStart ==
    [tx_ref |-> None, account_id |-> None, statement_number |-> None,
     opening_balance |-> None, closing_balance |-> None,
     closing_available_balance |-> None,
     entries |-> <<>>, current_entry |-> None, err |-> "none"]

\* a line that starts with ':' once its tag and value are split
TagLine(st, tag, value, line_trimmed) ==
    LET closed == IF IsSome(st.current_entry)
                  THEN Append(st.entries, st.current_entry[1]) ELSE st.entries
    IN IF tag = <<"2", "0">> THEN [st EXCEPT !.tx_ref = Some(value)]
       ELSE IF tag = <<"2", "5">> THEN [st EXCEPT !.account_id = Some(value)]
       ELSE IF tag = <<"2", "8", "C">> THEN [st EXCEPT !.statement_number = Some(value)]
       ELSE IF tag \in {<<"6", "0", "F">>, <<"6", "0", "M">>, <<"6", "2", "F">>,
                        <<"6", "2", "M">>, <<"6", "4">>}
       THEN Bind(parse_balance(value), LAMBDA bal :
                IF ~bal.ok THEN [st EXCEPT !.err = bal.err]
                ELSE IF tag \in {<<"6", "0", "F">>, <<"6", "0", "M">>}
                THEN (IF ~IsSome(st.opening_balance)
                      THEN [st EXCEPT !.opening_balance = Some(bal.val)]
                      ELSE st)
                ELSE IF tag \in {<<"6", "2", "F">>, <<"6", "2", "M">>}
                THEN [st EXCEPT !.closing_balance = Some(bal.val)]
                ELSE [st EXCEPT !.closing_available_balance = Some(bal.val)])
       ELSE IF tag = <<"6", "1">>
       THEN Bind(from_61_line(value, line_trimmed), LAMBDA ent :
                IF ~ent.ok THEN [st EXCEPT !.entries = closed, !.current_entry = None,
                                           !.err = ent.err]
                ELSE [st EXCEPT !.entries = closed, !.current_entry = Some(ent.val)])
       ELSE IF tag = <<"8", "6">>
       THEN (IF IsSome(st.current_entry)
             THEN [st EXCEPT !.current_entry = Some(push_info_line(@[1], value))]
             ELSE st)
       ELSE st

\* One iteration of the loop over the lines of a message
MessageLine(st, raw_line) ==
    Bind(TrimStart(TrimEndIn(raw_line, {"\r"})), LAMBDA line_trimmed :
        IF line_trimmed # <<>> /\ Head(line_trimmed) = ":"
        THEN Bind(split_tag_line(line_trimmed), LAMBDA tv :
                 IF ~tv.ok THEN [st EXCEPT !.err = tv.err]
                 ELSE TagLine(st, tv.val[1], tv.val[2], line_trimmed))
        ELSE IF IsSome(st.current_entry)
        THEN [st EXCEPT !.current_entry = Some(push_info_line(@[1], line_trimmed))]
        ELSE st)

RECURSIVE MessageLoop(_, _)
MessageLoop(st, lines) ==
    IF lines = <<>> \/ st.err # "none" THEN st
    ELSE MessageLoop(MessageLine(st, Head(lines)), Tail(lines))

\* MessageResult without the check of the account id
MessageResult_any_account(st) ==
    IF st.err # "none" THEN Err(st.err)
    ELSE IF ~IsSome(st.opening_balance) THEN Err("BadInput")
    ELSE Ok([transaction_reference |-> st.tx_ref,
             account_id |-> IF IsSome(st.account_id) THEN st.account_id[1] ELSE <<>>,
             statement_number |-> st.statement_number,
             opening_balance |-> st.opening_balance[1],
             entries |-> IF IsSome(st.current_entry)
                         THEN Append(st.entries, st.current_entry[1]) ELSE st.entries,
             closing_balance |-> st.closing_balance,
             closing_available_balance |-> st.closing_available_balance])

\* the end of Mt940Message::from_string_lines: the error of the loop, the check of
\* the required fields, the last entry pushed
MessageResult(st) ==
    IF st.err # "none" THEN Err(st.err)
    ELSE IF ~IsSome(st.account_id) THEN Err("BadInput")
    ELSE IF ~IsSome(st.opening_balance) THEN Err("BadInput")
    ELSE Ok([transaction_reference |-> st.tx_ref,
             account_id |-> st.account_id[1],
             statement_number |-> st.statement_number,
             opening_balance |-> st.opening_balance[1],
             entries |-> IF IsSome(st.current_entry)
                         THEN Append(st.entries, st.current_entry[1]) ELSE st.entries,
             closing_balance |-> st.closing_balance,
             closing_available_balance |-> st.closing_available_balance])

\* Mt940Message::from_string_lines: Ok(Mt940Message) or the first error
from_string_lines(lines) == MessageResult(MessageLoop(MessageStart, lines))

build_description(entry) ==
    LET parts == (IF IsSome(entry.transaction_type) THEN <<entry.transaction_type[1]>> ELSE <<>>)
              \o (IF IsSome(entry.customer_reference) THEN <<entry.customer_reference[1]>> ELSE <<>>)
              \o (IF IsSome(entry.bank_reference) THEN <<<<"/", "/">> \o entry.bank_reference[1]>> ELSE <<>>)
              \o (IF IsSome(entry.extra_details) THEN <<entry.extra_details[1]>> ELSE <<>>)
              \o (IF entry.info # <<>> THEN <<Join(entry.info, <<" ">>)>> ELSE <<>>)
    IN IF parts = <<>> THEN entry.raw_61 ELSE Join(parts, <<" ", "|", " ">>)

\* extract_counterparty_from_mt940 with the references tried before the lines
extract_counterparty_refs_first(entry) ==
    Bind(find_iban_and_name_in_lines(entry.info), LAMBDA in_lines :
    Bind(IF IsSome(entry.customer_reference)
         THEN find_iban_and_name_in_line(entry.customer_reference[1]) ELSE None,
         LAMBDA in_cref :
    Bind(IF IsSome(entry.bank_reference)
         THEN find_iban_and_name_in_line(entry.bank_reference[1]) ELSE None,
         LAMBDA in_bref :
        IF IsSome(in_cref) THEN <<Some(in_cref[1][1]), in_cref[1][2]>>
        ELSE IF IsSome(in_bref) THEN <<Some(in_bref[1][1]), in_bref[1][2]>>
        ELSE IF IsSome(in_lines) THEN <<Some(in_lines[1][1]), in_lines[1][2]>>
        ELSE <<None, None>>)))

\* <<counterparty, counterparty_name>>
extract_counterparty_from_mt940(entry) ==
    Bind(find_iban_and_name_in_lines(entry.info), LAMBDA in_lines :
    Bind(IF IsSome(entry.customer_reference)
         THEN find_iban_and_name_in_line(entry.customer_reference[1]) ELSE None,
         LAMBDA in_cref :
    Bind(IF IsSome(entry.bank_reference)
         THEN find_iban_and_name_in_line(entry.bank_reference[1]) ELSE None,
         LAMBDA in_bref :
        IF IsSome(in_lines) THEN <<Some(in_lines[1][1]), in_lines[1][2]>>
        ELSE IF IsSome(in_cref) THEN <<Some(in_cref[1][1]), in_cref[1][2]>>
        ELSE IF IsSome(in_bref) THEN <<Some(in_bref[1][1]), in_bref[1][2]>>
        ELSE <<None, None>>)))

\* TryFrom<&Mt940Entry> for Transaction
TransactionFromMt940Entry(entry) ==
    Bind(parse_amount(entry.amount), LAMBDA amount :
    Bind(parse_mt940_yy_mm_dd(entry.value_date), LAMBDA value_date :
    Bind(derive_booking_date(value_date.val, entry.entry_date), LAMBDA booking_date :
    Bind(extract_counterparty_from_mt940(entry), LAMBDA cp :
        IF entry.dc_mark \notin {"D", "C"} THEN Err("InvalidAmount")
        ELSE IF ~amount.ok THEN amount
        ELSE IF ~value_date.ok THEN value_date
        ELSE IF ~booking_date.ok THEN booking_date
        ELSE Ok(Transaction(booking_date.val, Some(value_date.val), amount.val,
                            IF entry.dc_mark = "D" THEN "Debit" ELSE "Credit",
                            build_description(entry), cp[1], cp[2]))))))

\* collect::<Result<Vec<_>, _>>() over a sequence of results: the first error wins
RECURSIVE Collect(_)
Collect(results) ==
    IF results = <<>> THEN Ok(<<>>)
    ELSE IF ~Head(results).ok THEN Head(results)
    ELSE Bind(Collect(Tail(results)), LAMBDA rest :
             IF ~rest.ok THEN rest ELSE Ok(<<Head(results).val>> \o rest.val))

RECURSIVE MaxBookingDate(_, _)
MaxBookingDate(txs, default) ==
    IF txs = <<>> THEN default
    ELSE LET rest == MaxBookingDate(Tail(txs), Head(txs).booking_date)
         IN DateMax(Head(txs).booking_date, rest)

\* TryFrom<Mt940Message> for Statement
StatementFromMt940Message(message) ==
    LET opening_mt == message.opening_balance
        closing_mt == message.closing_balance
    IN Bind(parse_amount(opening_mt.amount), LAMBDA opening_raw :
       Bind(parse_amount(closing_mt[1].amount), LAMBDA closing_raw :
       Bind(parse_mt940_yy_mm_dd(opening_mt.date), LAMBDA period_from :
       Bind(Collect([i \in 1..Len(message.entries) |->
                       TransactionFromMt940Entry(message.entries[i])]), LAMBDA transactions :
       Bind(parse_mt940_yy_mm_dd(closing_mt[1].date), LAMBDA closing_date :
           IF ~opening_raw.ok THEN opening_raw
           ELSE IF opening_mt.dc_mark \notin {"C", "D"} THEN Err("InvalidAmount")
           ELSE IF IsSome(closing_mt) /\ ~closing_raw.ok THEN closing_raw
           ELSE IF IsSome(closing_mt) /\ closing_mt[1].dc_mark \notin {"C", "D"}
           THEN Err("InvalidAmount")
           ELSE IF ~period_from.ok THEN period_from
           ELSE IF ~transactions.ok THEN transactions
           ELSE IF IsSome(closing_mt) /\ ~closing_date.ok THEN closing_date
           ELSE Ok(Statement(
                    message.account_id,
                    None,
                    parse_currency(opening_mt.currency),
                    Some(IF opening_mt.dc_mark = "C" THEN opening_raw.val
                         ELSE 0 - opening_raw.val),
                    IF IsSome(closing_mt)
                    THEN Some(IF closing_mt[1].dc_mark = "C" THEN closing_raw.val
                              ELSE 0 - closing_raw.val)
                    ELSE None,
                    transactions.val,
                    period_from.val,
                    IF IsSome(closing_mt) THEN closing_date.val
                    ELSE MaxBookingDate(transactions.val, period_from.val))))))))

\* BufRead::lines: pieces ended by '\n', a '\r' before it dropped; a last piece
\* without '\n' is a line, an empty last piece is not
\* s without its last character when that is c
TrimEndOnce(s, c) ==
    IF s # <<>> /\ s[Len(s)] = c THEN SubSeq(s, 1, Len(s) - 1) ELSE s

RECURSIVE BufLines(_)
BufLines(text) ==
    Bind(Find(text, <<"\n">>), LAMBDA nl :
        IF text = <<>> THEN <<>>
        ELSE IF ~IsSome(nl) THEN <<text>>
        ELSE <<TrimEndOnce(SubSeq(text, 1, nl[1]), "\r")>> \o BufLines(From(text, nl[1] + 1)))

\* The loop state of Mt940Data::parse before any line is read
ParseStart ==
    [messages |-> <<>>, message_lines |-> <<>>, block_kind |-> "None",
     in_text_block |-> FALSE, err |-> "none"]

Opener(kind) == IF kind = "Curly" THEN <<"{", "4", ":">> ELSE <<"(", "4", ":">>

\* the closers of both styles, whatever the style of the block
CloseMarkers_both(kind) == {<<"-", "}">>, <<"}">>, <<"-", ")">>, <<")">>}

CloseMarkers(kind) ==
    IF kind = "Curly" THEN {<<"-", "}">>, <<"}">>} ELSE {<<"-", ")">>, <<")">>}

\* Entering a block at offset pos of line: the text after the opener starts the body
OpenBlock(st, kind, line, pos) ==
    LET after == From(line, pos + 3)
    IN [st EXCEPT !.block_kind = kind, !.in_text_block = TRUE,
                  !.message_lines = IF ~IsBlank(after) THEN Append(@, after) ELSE @]

\* The lines of a block are complete: they become a message
CloseBlock(st) ==
    Bind(from_string_lines(st.message_lines), LAMBDA msg :
        IF ~msg.ok THEN [st EXCEPT !.err = msg.err]
        ELSE [st EXCEPT !.messages = Append(@, msg.val), !.message_lines = <<>>,
                        !.in_text_block = FALSE])

\* A line outside a block: the block opens at the first opener of the line
SeekBlock(st, line) ==
    Bind(Find(line, Opener("Curly")), LAMBDA pos_curly :
    Bind(Find(line, Opener("Paren")), LAMBDA pos_paren :
    Bind(Find(line, Opener(st.block_kind)), LAMBDA pos_kind :
        IF st.block_kind # "None"
        THEN (IF IsSome(pos_kind) THEN OpenBlock(st, st.block_kind, line, pos_kind[1]) ELSE st)
        ELSE IF IsSome(pos_curly) /\ IsSome(pos_paren)
        THEN OpenBlock(st, IF pos_curly[1] <= pos_paren[1] THEN "Curly" ELSE "Paren", line,
                       IF pos_curly[1] <= pos_paren[1] THEN pos_curly[1] ELSE pos_paren[1])
        ELSE IF IsSome(pos_curly) THEN OpenBlock(st, "Curly", line, pos_curly[1])
        ELSE IF IsSome(pos_paren) THEN OpenBlock(st, "Paren", line, pos_paren[1])
        ELSE st)))

\* One iteration of the loop over the lines of the input
ParseLine(st, line) ==
    Bind(Trim(line), LAMBDA trimmed :
        IF trimmed = <<>> THEN st
        ELSE IF ~st.in_text_block THEN SeekBlock(st, line)
        ELSE IF \E p \in CloseMarkers(st.block_kind) : StartsWith(trimmed, p)
        THEN CloseBlock(st)
        ELSE [st EXCEPT !.message_lines = Append(@, line)])

RECURSIVE ParseLoop(_, _)
ParseLoop(st, lines) ==
    IF lines = <<>> \/ st.err # "none" THEN st
    ELSE ParseLoop(ParseLine(st, Head(lines)), Tail(lines))

\* the end of Mt940Data::parse without the block that was left open
ParseEnd_closed_only(st) ==
    IF st.err # "none" THEN Err(st.err)
    ELSE IF st.messages = <<>> THEN Err("BadInput")
    ELSE Ok(st.messages[1])

\* The end of Mt940Data::parse: a block left open with lines in it becomes a
\* message, and the first message is the result
ParseEnd(st) ==
    Bind(from_string_lines(st.message_lines), LAMBDA last :
    Bind(IF st.in_text_block /\ st.message_lines # <<>>
         THEN Append(st.messages, last.val) ELSE st.messages, LAMBDA messages :
        IF st.err # "none" THEN Err(st.err)
        ELSE IF st.in_text_block /\ st.message_lines # <<>> /\ ~last.ok THEN last
        ELSE IF messages = <<>> THEN Err("BadInput")
        ELSE Ok(messages[1])))

\* Mt940Data::parse: Ok(Mt940Message) (the field `message`) or the first error
Mt940Data_parse(text) == ParseEnd(ParseLoop(ParseStart, BufLines(text)))

\* Mt940Data::parse followed by Statement::try_from
DecodeMt940Text(text) ==
    Bind(Mt940Data_parse(text), LAMBDA data :
        IF ~data.ok THEN data ELSE StatementFromMt940Message(data.val))

(***************************************************************************)
(* serialization/mt940_helpers.rs and Statement::write_mt940               *)
(***************************************************************************)
Mt940CurrencyCode(cur) ==
    IF cur.tag = "RUB" THEN <<"R", "U", "B">>
    ELSE IF cur.tag = "EUR" THEN <<"E", "U", "R">>
    ELSE IF cur.tag = "USD" THEN <<"U", "S", "D">>
    ELSE IF cur.tag = "CNY" THEN <<"C", "N", "Y">>
    ELSE <<"X", "X", "X">>

\* date.format("%y%m%d")
format_yymmdd(date) == Format02(date.y % 100) \o Format02(date.m) \o Format02(date.d)

\* format_61_line with the value date lost: the booking date is written in its place
format_61_line_booking_as_value(tx) ==
    format_yymmdd(tx.booking_date)
    \o Format02(tx.booking_date.m) \o Format02(tx.booking_date.d)
    \o <<IF tx.direction = "Debit" THEN "D" ELSE "C">>
    \o format_minor_units(tx.amount, ",")

format_61_line(tx) ==
    LET value_date == IF IsSome(tx.value_date) THEN tx.value_date[1] ELSE tx.booking_date
    IN format_yymmdd(value_date)
       \o Format02(tx.booking_date.m) \o Format02(tx.booking_date.d)
       \o <<IF tx.direction = "Debit" THEN "D" ELSE "C">>
       \o format_minor_units(tx.amount, ",")

\* format_86_line with the description left out: only the counterparty is written
format_86_line_without_description(tx) ==
    LET acc == IF IsSome(tx.counterparty) /\ Trim(tx.counterparty[1]) # <<>>
               THEN <<Trim(tx.counterparty[1])>> ELSE <<>>
        nam == IF IsSome(tx.counterparty_name) /\ Trim(tx.counterparty_name[1]) # <<>>
               THEN <<Trim(tx.counterparty_name[1])>> ELSE <<>>
        joined == Join(acc \o nam, <<" ">>)
    IN IF Trim(joined) = <<>> THEN None ELSE Some(Trim(joined))

\* Option<String>: the text of the :86: line
format_86_line(tx) ==
    LET acc == IF IsSome(tx.counterparty) /\ Trim(tx.counterparty[1]) # <<>>
               THEN <<Trim(tx.counterparty[1])>> ELSE <<>>
        nam == IF IsSome(tx.counterparty_name) /\ Trim(tx.counterparty_name[1]) # <<>>
               THEN <<Trim(tx.counterparty_name[1])>> ELSE <<>>
        joined == Join(acc \o nam, <<" ">>)
        desc == Trim(tx.description)
        base == IF desc # <<>>
                THEN (IF joined # <<>> THEN joined \o <<" ", "/", "/", " ">> ELSE joined) \o desc
                ELSE joined
    IN IF Trim(base) = <<>> THEN None ELSE Some(Trim(base))

BalanceLine(tag, minor, date, ccy_code) ==
    tag \o <<IF minor >= 0 THEN "C" ELSE "D">> \o format_yymmdd(date) \o ccy_code
        \o format_minor_units(Abs(minor), ",")

TAG61 == <<":", "6", "1", ":">>

TAG86 == <<":", "8", "6", ":">>

TAG20 == <<":", "2", "0", ":", "S", "E", "R", "I", "A", "L", "I", "Z", "E", "D">>

TAG28C == <<":", "2", "8", "C", ":", "1", "/", "1">>

\* TransactionLines with a :86: line for every transaction, an empty one for a
\* transaction without text
TransactionLines_always_86(txs) ==
    [i \in 1..(2 * Len(txs)) |->
        IF i % 2 = 1 THEN TAG61 \o format_61_line(txs[(i + 1) \div 2])
        ELSE TAG86 \o (IF IsSome(format_86_line(txs[i \div 2]))
                       THEN format_86_line(txs[i \div 2])[1] ELSE <<>>)]

\* for tx in &self.transactions: the :61: line and the :86: line if there is one
RECURSIVE TransactionLines(_)
TransactionLines(txs) ==
    IF txs = <<>> THEN <<>>
    ELSE LET info == format_86_line(Head(txs))
         IN <<TAG61 \o format_61_line(Head(txs))>>
            \o (IF IsSome(info) THEN <<TAG86 \o info[1]>> ELSE <<>>)
            \o TransactionLines(Tail(txs))

\* Statement::write_mt940: what each writeln! writes, in the order of the calls
Mt940Lines(stmt) ==
    LET ccy_code == Mt940CurrencyCode(stmt.currency)
        opening_minor == IF IsSome(stmt.opening_balance) THEN stmt.opening_balance[1] ELSE 0
    IN <<<<"{", "4", ":">>, TAG20, <<":", "2", "5", ":">> \o stmt.account_id, TAG28C,
         BalanceLine(<<":", "6", "0", "F", ":">>, opening_minor, stmt.period_from, ccy_code)>>
       \o TransactionLines(stmt.transactions)
       \o (IF IsSome(stmt.closing_balance)
           THEN <<BalanceLine(<<":", "6", "2", "F", ":">>, stmt.closing_balance[1], stmt.period_until, ccy_code)>>
           ELSE <<>>)
       \o <<<<"-", "}">>>>

\* writeln!: each text with a line break after it
RECURSIVE WriteLn(_)
WriteLn(texts) ==
    IF texts = <<>> THEN <<>> ELSE Head(texts) \o <<"\n">> \o WriteLn(Tail(texts))

\* Statement::write_mt940: the text written
write_mt940(stmt) == WriteLn(Mt940Lines(stmt))

(***************************************************************************)
(* csv_parser/utils.rs                                                     *)
(*                                                                         *)
(* A CSV document is the sequence of its records, a record the sequence of *)
(* its cells (the csv crate's reader and writer carry cells unchanged).    *)
(* The Russian labels are single symbols:                                  *)
(*   "Data provodki" = "Дата проводки", "Debet" = "Дебет",                 *)
(*   "Kredit" = "Кредит", "Summa po debetu" = "Сумма по дебету",           *)
(*   "Summa po kreditu" = "Сумма по кредиту", "No dokumenta" =             *)
(*   "№ документа", "VO" = "ВО", "Bank" = "Банк", "Naznachenie platezha"   *)
(*   = "Назначение платежа", "b/s" = "б/с", "Kolichestvo operatsiy" =      *)
(*   "Количество операций", "Vkhodyashchiy ostatok" = "Входящий остаток",  *)
(*   "Iskhodyashchiy ostatok" = "Исходящий остаток", "Itogo oborotov" =    *)
(*   "Итого оборотов", "za period s" = "за период с", "po" = "по",         *)
(*   "g" = "г", and the twelve month names in the genitive.                *)
(***************************************************************************)
\* StringRecord::get(idx), idx counted from 0
Get(row, idx) == IF idx + 1 <= Len(row) THEN Some(row[idx + 1]) ELSE None

\* row.get(idx).unwrap_or("").trim()
GetTrim(row, idx) == IF idx + 1 <= Len(row) THEN Trim(row[idx + 1]) ELSE <<>>

IsZeroText(s) ==
    s = <<>> \/ s = <<"0">> \/ s = <<"0", ",", "0", "0">> \/ s = <<"0", ".", "0", "0">>

parse_footer_balance(row) ==
    Bind(~IsZeroText(GetTrim(row, 7)), LAMBDA has_debit :
    Bind(~IsZeroText(GetTrim(row, 11)), LAMBDA has_credit :
    Bind(parse_amount(Replace(GetTrim(row, 7), ",", <<".">>)), LAMBDA debit :
        IF has_debit /\ ~has_credit THEN (IF ~debit.ok THEN debit ELSE Ok(0 - debit.val))
        ELSE IF ~has_debit /\ has_credit
        THEN parse_amount(Replace(GetTrim(row, 11), ",", <<".">>))
        ELSE IF ~has_debit /\ ~has_credit THEN Ok(0)
        ELSE Err("Header"))))

\* str::lines(): split at '\n', a '\r' before it dropped, no empty last line
StrLines(block) == BufLines(block)

RECURSIVE NonEmptyTrimmed(_)
NonEmptyTrimmed(lines) ==
    IF lines = <<>> THEN <<>>
    ELSE (IF Trim(Head(lines)) # <<>> THEN <<Trim(Head(lines))>> ELSE <<>>)
         \o NonEmptyTrimmed(Tail(lines))

\* <<account, name>>: the first and the third non-empty line
extract_account_and_name(block) ==
    Bind(NonEmptyTrimmed(StrLines(block)), LAMBDA lines :
        <<IF Len(lines) >= 1 THEN Some(lines[1]) ELSE None,
          IF Len(lines) >= 3 THEN Some(lines[3]) ELSE None>>)

extract_counterparty_account(debit_block, credit_block, our_account) ==
    Bind(extract_account_and_name(debit_block), LAMBDA debit :
    Bind(extract_account_and_name(credit_block), LAMBDA credit :
        IF IsSome(debit[1]) /\ debit[1][1] = our_account THEN credit
        ELSE IF IsSome(credit[1]) /\ credit[1][1] = our_account THEN debit
        ELSE <<None, None>>))

\* parse_amount_and_direction with the debit side taken when both cells are filled
parse_amount_and_direction_debit_first(debit, credit) ==
    Bind(IsSome(debit) /\ ~IsBlank(debit[1]), LAMBDA has_debit :
    Bind(IsSome(credit) /\ ~IsBlank(credit[1]), LAMBDA has_credit :
    Bind(parse_amount(IF has_debit THEN debit[1] ELSE credit[1]), LAMBDA amount :
        IF ~has_debit /\ ~has_credit THEN Err("AmountSideConflict")
        ELSE IF ~amount.ok THEN amount
        ELSE Ok(<<amount.val, IF has_debit THEN "Debit" ELSE "Credit">>))))

\* Ok(<<amount, direction>>); debit and credit are Option<&str>
parse_amount_and_direction(debit, credit) ==
    Bind(IsSome(debit) /\ ~IsBlank(debit[1]), LAMBDA has_debit :
    Bind(IsSome(credit) /\ ~IsBlank(credit[1]), LAMBDA has_credit :
    Bind(parse_amount(IF has_debit THEN debit[1] ELSE credit[1]), LAMBDA amount :
        IF has_debit = has_credit THEN Err("AmountSideConflict")
        ELSE IF ~amount.ok THEN amount
        ELSE Ok(<<amount.val, IF has_debit THEN "Debit" ELSE "Credit">>))))

FooterMarkers == {"Kolichestvo operatsiy", "Vkhodyashchiy ostatok", "Iskhodyashchiy ostatok", "Itogo oborotov"}

is_footer_row(row) ==
    \E i \in 1..Len(row) :
        LET field == Trim(row[i])
        IN \/ field = <<"b/s">>
           \/ \E m \in FooterMarkers : StartsWith(field, <<m>>)

\* Ok(the index of the column, from 0) or Err("Header")
find_col(row, needle) ==
    LET exact == {i \in 1..Len(row) : Trim(row[i]) = needle}
        part == {i \in 1..Len(row) : Contains(row[i], needle)}
    IN IF exact # {} THEN Ok((CHOOSE i \in exact : \A j \in exact : i <= j) - 1)
       ELSE IF part # {} THEN Ok((CHOOSE i \in part : \A j \in part : i <= j) - 1)
       ELSE Err("Header")

MonthNames == <<"yanvarya", "fevralya", "marta", "aprelya", "maya", "iyunya", "iyulya", "avgusta", "sentyabrya", "oktyabrya", "noyabrya", "dekabrya">>

\* the date of the three words of a header date
RusDateOf(day, month_str, year) ==
    Bind({i \in 1..12 : month_str = <<MonthNames[i]>>}, LAMBDA months :
    Bind(FromYmdOpt(year.val, CHOOSE i \in months : TRUE, day.val), LAMBDA date :
        IF ~day.ok THEN Err("Header")
        ELSE IF ~year.ok THEN Err("Header")
        ELSE IF months = {} THEN Err("Header")
        ELSE IF ~IsSome(date) THEN Err("Header")
        ELSE Ok(date[1])))

parse_rus_date(raw) ==
    Bind(SplitWhitespace(Trim(TrimEndIn(Trim(raw), WhitespaceChars \cup {".", "g"}))),
         LAMBDA parts :
        IF Len(parts) < 3 THEN Err("Header")
        ELSE RusDateOf(ParseUnsigned(parts[1]), ToLowercase(parts[2]), ParseSigned(parts[3])))

(***************************************************************************)
(* csv_parser.rs                                                           *)
(***************************************************************************)
\* the cell of a header row, trimmed
HeaderCell(rows, row_idx, col_idx) == GetTrim(rows[row_idx + 1], col_idx)

CsvHeader_from_string_records(rows) ==
    IF Len(rows) < 8 THEN Err("Header")
    ELSE Ok([client_account |-> HeaderCell(rows, 4, 12),
             client_name |-> HeaderCell(rows, 5, 12),
             period_from |-> HeaderCell(rows, 6, 2),
             period_until |-> HeaderCell(rows, 6, 15),
             currency |-> HeaderCell(rows, 7, 2)])

TableLayout_from_string_records(headers_row, subheaders_row) ==
    Bind(find_col(headers_row, <<"Data provodki">>), LAMBDA booking_date_col :
    Bind(find_col(subheaders_row, <<"Debet">>), LAMBDA debit_account_col :
    Bind(find_col(subheaders_row, <<"Kredit">>), LAMBDA credit_account_col :
    Bind(find_col(headers_row, <<"No dokumenta">>), LAMBDA doc_number_col :
    Bind(find_col(headers_row, <<"VO">>), LAMBDA operation_type_col :
    Bind(find_col(headers_row, <<"Bank">>), LAMBDA bank_col :
    Bind(find_col(headers_row, <<"Naznachenie platezha">>), LAMBDA transaction_purpose_col :
    Bind(find_col(headers_row, <<"Summa po debetu">>), LAMBDA debit_amount_col :
    Bind(find_col(headers_row, <<"Summa po kreditu">>), LAMBDA credit_amount_col :
        IF ~booking_date_col.ok \/ ~debit_account_col.ok \/ ~credit_account_col.ok
           \/ ~doc_number_col.ok \/ ~operation_type_col.ok \/ ~bank_col.ok
           \/ ~transaction_purpose_col.ok \/ ~debit_amount_col.ok \/ ~credit_amount_col.ok
        THEN Err("Header")
        ELSE Ok([booking_date_col |-> booking_date_col.val,
                 debit_account_col |-> debit_account_col.val,
                 credit_account_col |-> credit_account_col.val,
                 debit_amount_col |-> debit_amount_col.val,
                 credit_amount_col |-> credit_amount_col.val,
                 transaction_purpose_col |-> transaction_purpose_col.val]))))))))))

CsvRecord_from_string_record(row, layout) ==
    [booking_date |-> GetTrim(row, layout.booking_date_col),
     debit_account |-> GetTrim(row, layout.debit_account_col),
     credit_account |-> GetTrim(row, layout.credit_account_col),
     debit_amount |-> Some(GetTrim(row, layout.debit_amount_col)),
     credit_amount |-> Some(GetTrim(row, layout.credit_amount_col)),
     transaction_purpose |-> Some(GetTrim(row, layout.transaction_purpose_col))]

\* NaiveDate::parse_from_str(s, "%d.%m.%Y"): day and month of one or two
\* digits, a year of one to four digits
\* the date of the three parts of a dotted date
DmyOf(parts) ==
    Bind(FromYmdOpt(DigitsValue(parts[3]), DigitsValue(parts[2]), DigitsValue(parts[1])),
         LAMBDA date :
        IF \E i \in 1..3 : parts[i] = <<>> \/ ~AllDigits(parts[i]) THEN Err("Chrono")
        ELSE IF Len(parts[1]) > 2 \/ Len(parts[2]) > 2 \/ Len(parts[3]) > 4 THEN Err("Chrono")
        ELSE IF ~IsSome(date) THEN Err("Chrono")
        ELSE Ok(date[1]))

ParseDmy(s) ==
    Bind(SplitChar(s, "."), LAMBDA parts :
        IF Len(parts) # 3 THEN Err("Chrono") ELSE DmyOf(parts))

into_transaction(rec, our_account) ==
    Bind(ParseDmy(rec.booking_date), LAMBDA booking_date :
    Bind(parse_amount_and_direction(rec.debit_amount, rec.credit_amount), LAMBDA ad :
    Bind(extract_counterparty_account(rec.debit_account, rec.credit_account, our_account),
         LAMBDA cp :
        IF ~booking_date.ok THEN booking_date
        ELSE IF ~ad.ok THEN ad
        ELSE Ok(Transaction(booking_date.val, None, ad.val[1], ad.val[2],
                            rec.transaction_purpose[1], cp[1], cp[2])))))

\* the last row with the title wins; an unparsable one fails the footer
RECURSIVE FooterLoop(_, _, _)
FooterLoop(rows, opening, closing) ==
    IF rows = <<>> THEN
        IF ~IsSome(opening) THEN Err("Header")
        ELSE IF ~IsSome(closing) THEN Err("Header")
        ELSE Ok([opening_balance |-> opening[1], closing_balance |-> closing[1]])
    ELSE Bind(GetTrim(Head(rows), 1), LAMBDA title :
         Bind(parse_footer_balance(Head(rows)), LAMBDA bal :
             IF title \in {<<"Vkhodyashchiy ostatok">>, <<"Iskhodyashchiy ostatok">>} /\ ~bal.ok
             THEN bal
             ELSE FooterLoop(Tail(rows),
                             IF title = <<"Vkhodyashchiy ostatok">> THEN Some(bal.val)
                             ELSE opening,
                             IF title = <<"Iskhodyashchiy ostatok">> THEN Some(bal.val)
                             ELSE closing)))

CsvFooter_from_string_records(rows) == FooterLoop(rows, None, None)

\* s.trim_start_matches(word): every leading repetition of the word removed
RECURSIVE TrimStartMatchesWord(_, _)
TrimStartMatchesWord(s, word) ==
    IF StartsWith(s, word) /\ word # <<>> THEN TrimStartMatchesWord(SubSeq(s, Len(word) + 1, Len(s)), word)
    ELSE s

RowIsBlank(row) == \A i \in 1..Len(row) : IsBlank(row[i])

RECURSIVE NonBlankRows(_)
NonBlankRows(rows) ==
    IF rows = <<>> THEN <<>>
    ELSE (IF RowIsBlank(Head(rows)) THEN <<>> ELSE <<Head(rows)>>) \o NonBlankRows(Tail(rows))

\* the parts of the file, once the header row h and the footer row f are found
CsvParts(rows, h, f) ==
    Bind(CsvHeader_from_string_records(SubSeq(rows, 1, h - 1)), LAMBDA header :
    Bind(TableLayout_from_string_records(rows[h], rows[h + 1]), LAMBDA layout :
    Bind(NonBlankRows(SubSeq(rows, h + 2, f - 1)), LAMBDA data_rows :
    Bind(CsvFooter_from_string_records(SubSeq(rows, f, Len(rows))), LAMBDA footer :
        IF ~header.ok THEN header
        ELSE IF ~layout.ok THEN layout
        ELSE IF ~footer.ok THEN footer
        ELSE Ok([header |-> header.val,
                 records |-> [i \in 1..Len(data_rows) |->
                                CsvRecord_from_string_record(data_rows[i], layout.val)],
                 footer |-> footer.val])))))

\* the rows after the table header row h
CsvTable(rows, h) ==
    Bind({i \in (h + 2)..Len(rows) : is_footer_row(rows[i])}, LAMBDA feet :
        IF h = Len(rows) THEN Err("Header")
        ELSE IF feet = {} THEN Err("Header")
        ELSE CsvParts(rows, h, Least(feet)))

\* the reader refuses a record whose length differs from the first one's
CsvData_parse(rows) ==
    Bind({i \in 1..Len(rows) : \E j \in 1..Len(rows[i]) : Contains(rows[i][j], <<"Data provodki">>)},
         LAMBDA heads :
        IF \E i \in 1..Len(rows) : Len(rows[i]) # Len(rows[1]) THEN Err("Csv")
        ELSE IF heads = {} THEN Err("Header")
        ELSE CsvTable(rows, Least(heads)))

StatementFromCsvData(data) ==
    Bind(parse_rus_date(Trim(TrimStartMatchesWord(data.header.period_from, <<"za period s">>))),
         LAMBDA period_from :
    Bind(parse_rus_date(Trim(TrimStartMatchesWord(data.header.period_until, <<"po">>))),
         LAMBDA period_until :
    Bind(Collect([i \in 1..Len(data.records) |->
                    into_transaction(data.records[i], data.header.client_account)]),
         LAMBDA transactions :
        IF ~period_from.ok THEN period_from
        ELSE IF ~period_until.ok THEN period_until
        ELSE IF ~transactions.ok THEN transactions
        ELSE Ok(Statement(data.header.client_account, Some(data.header.client_name),
                          parse_currency(data.header.currency),
                          Some(data.footer.opening_balance), Some(data.footer.closing_balance),
                          transactions.val, period_from.val, period_until.val)))))

DecodeCsvRows(rows) ==
    Bind(CsvData_parse(rows), LAMBDA data :
        IF ~data.ok THEN data ELSE StatementFromCsvData(data.val))

(***************************************************************************)
(* serialization/csv_helpers.rs and Statement::write_csv                   *)
(*                                                                         *)
(* The cells that hold the time of writing carry the symbol "now".         *)
(***************************************************************************)
COLS == 23

empty_row == [i \in 1..COLS |-> <<>>]

\* {year}: an i32 printed without padding
FormatInt(n) == IF n < 0 THEN <<"-">> \o FormatNat(0 - n) ELSE FormatNat(n)

format_rus_date(d) ==
    Format02(d.d) \o <<" ", MonthNames[d.m], " ">> \o FormatInt(d.y) \o <<" ", "g", ".">>

\* chrono's %d.%m.%Y
FormatDmy(d) == Format02(d.d) \o <<".">> \o Format02(d.m) \o <<".">> \o Format04(d.y)

currency_label(cur) ==
    IF cur.tag = "RUB" THEN <<"Rossiyskiy rubl">>
    ELSE IF cur.tag = "EUR" THEN <<"Evro">>
    ELSE IF cur.tag = "USD" THEN <<"Dollar SSHA">>
    ELSE IF cur.tag = "CNY" THEN <<"Kitayskiy yuan">>
    ELSE cur.text

\* make_party_block without the middle line: the name follows the account directly
make_party_block_two_lines(account, name) ==
    IF account = <<>> /\ name = <<>> THEN <<>>
    ELSE account \o <<"\n">> \o (IF name = <<>> THEN <<"-">> ELSE name)

make_party_block(account, name) ==
    IF account = <<>> /\ name = <<>> THEN <<>>
    ELSE account \o <<"\n", "-", "\n">> \o (IF name = <<>> THEN <<"-">> ELSE name)

UnwrapOrDefault(o) == IF IsSome(o) THEN o[1] ELSE <<>>

\* the nine records of the header; cells are numbered from 0 in the source
write_header(stmt) ==
    LET row0 == [empty_row EXCEPT ![1 + 1] = <<"now">>]
        row1 == [empty_row EXCEPT ![5 + 1] = <<"SberBiznes. eksport vypiski">>]
        row2 == [empty_row EXCEPT ![1 + 1] = <<"PAO SBERBANK">>]
        row3 == [empty_row EXCEPT ![1 + 1] = <<"Data formirovaniya vypiski", " ", "now">>]
        row4 == [empty_row EXCEPT ![1 + 1] = <<"VYPISKA OPERATSIY PO LITSEVOMU SCHETU">>,
                                  ![12 + 1] = stmt.account_id]
        row5 == [empty_row EXCEPT ![12 + 1] = UnwrapOrDefault(stmt.account_name)]
        row6 == [empty_row EXCEPT ![2 + 1] = <<"za period s", " ">> \o format_rus_date(stmt.period_from),
                                  ![14 + 1] = <<"po">>,
                                  ![15 + 1] = <<"po", " ">> \o format_rus_date(stmt.period_until)]
        last == IF stmt.transactions = <<>> THEN <<>>
                ELSE <<"Data predydushchey operatsii po schetu", " ">>
                     \o format_rus_date(MaxBookingDate(stmt.transactions, stmt.period_from))
        row7 == [empty_row EXCEPT ![2 + 1] = currency_label(stmt.currency), ![12 + 1] = last]
    IN <<row0, row1, row2, row3, row4, row5, row6, row7, empty_row>>

RECURSIVE Turnover(_, _)
Turnover(txs, direction) ==
    IF txs = <<>> THEN <<0, 0>>
    ELSE LET rest == Turnover(Tail(txs), direction)
         IN IF Head(txs).direction = direction
            THEN <<rest[1] + 1, rest[2] + Head(txs).amount>> ELSE rest

BalanceRow(title, balance, date) ==
    [empty_row EXCEPT ![1 + 1] = <<title>>,
                      ![7 + 1] = format_minor_units(IF balance >= 0 THEN 0 ELSE 0 - balance, ","),
                      ![11 + 1] = format_minor_units(IF balance >= 0 THEN balance ELSE 0, "."),
                      ![17 + 1] = <<"(P)">>,
                      ![19 + 1] = format_rus_date(date)]

write_footer(stmt) ==
    LET debit == Turnover(stmt.transactions, "Debit")
        credit == Turnover(stmt.transactions, "Credit")
        bs_row == [empty_row EXCEPT ![1 + 1] = <<"b/s">>, ![3 + 1] = stmt.account_id,
                                    ![7 + 1] = <<"Debet">>, ![11 + 1] = <<"Kredit">>,
                                    ![20 + 1] = <<"Vsego">>]
        count_row == [empty_row EXCEPT ![1 + 1] = <<"Kolichestvo operatsiy">>,
                                       ![6 + 1] = FormatNat(debit[1]),
                                       ![10 + 1] = FormatNat(credit[1]),
                                       ![20 + 1] = FormatNat(debit[1] + credit[1])]
        total_row == [empty_row EXCEPT ![1 + 1] = <<"Itogo oborotov">>,
                                       ![7 + 1] = format_minor_units(debit[2], "."),
                                       ![11 + 1] = format_minor_units(credit[2], ".")]
    IN <<bs_row, count_row>>
       \o (IF IsSome(stmt.opening_balance)
           THEN <<BalanceRow("Vkhodyashchiy ostatok", stmt.opening_balance[1], stmt.period_from)>>
           ELSE <<>>)
       \o <<total_row>>
       \o (IF IsSome(stmt.closing_balance)
           THEN <<BalanceRow("Iskhodyashchiy ostatok", stmt.closing_balance[1], stmt.period_until)>>
           ELSE <<>>)

TransactionRow(stmt, tx) ==
    LET our_account == stmt.account_id
        our_name == UnwrapOrDefault(stmt.account_name)
        cp_acc == UnwrapOrDefault(tx.counterparty)
        cp_name == UnwrapOrDefault(tx.counterparty_name)
        ours == make_party_block(our_account, our_name)
        theirs == make_party_block(cp_acc, cp_name)
        debit == tx.direction = "Debit"
    IN [empty_row EXCEPT ![1 + 1] = FormatDmy(tx.booking_date),
                         ![4 + 1] = IF debit THEN ours ELSE theirs,
                         ![8 + 1] = IF debit THEN theirs ELSE ours,
                         ![9 + 1] = IF debit THEN format_minor_units(tx.amount, ".") ELSE <<>>,
                         ![13 + 1] = IF debit THEN <<>> ELSE format_minor_units(tx.amount, "."),
                         ![20 + 1] = tx.description]

write_csv(stmt) ==
    LET headers_row == [empty_row EXCEPT ![1 + 1] = <<"Data provodki">>,
                                         ![4 + 1] = <<"Schet">>,
                                         ![9 + 1] = <<"Summa po debetu">>,
                                         ![13 + 1] = <<"Summa po kreditu">>,
                                         ![14 + 1] = <<"No dokumenta">>,
                                         ![16 + 1] = <<"VO">>,
                                         ![17 + 1] = <<"Bank", " (BIK i naimenovanie)">>,
                                         ![20 + 1] = <<"Naznachenie platezha">>]
        subheaders_row == [empty_row EXCEPT ![4 + 1] = <<"Debet">>, ![8 + 1] = <<"Kredit">>]
    IN write_header(stmt)
       \o <<headers_row, subheaders_row>>
       \o [i \in 1..Len(stmt.transactions) |-> TransactionRow(stmt, stmt.transactions[i])]
       \o write_footer(stmt)

(***************************************************************************)
(* camt053/serde_models.rs                                                 *)
(*                                                                         *)
(* A camt.053 document is its element tree: [root, stmts], root being the  *)
(* name of the root element and stmts the <Stmt> elements in order.  A     *)
(* <Stmt> element is a record [Acct, FrToDt, Bal, Ntry]; a child element   *)
(* that may be missing is an Option.  The derived Deserialize refuses an   *)
(* element that lacks a child its struct requires: <Acct> in a <Stmt>,     *)
(* <ValDt> in an <Ntry>.                                                   *)
(***************************************************************************)
\* Deserialize for Camt053Entry
DeserializeEntry(x) ==
    IF ~IsSome(x.ValDt) THEN Err("XmlDe")
    ELSE Ok([amount |-> x.Amt, cdt_dbt_ind |-> x.CdtDbtInd,
             booking_date |-> x.BookgDt, value_date |-> x.ValDt[1],
             details |-> x.NtryDtls])

\* Deserialize for Camt053Statement
DeserializeStatement(x) ==
    Bind(Collect([i \in 1..Len(x.Ntry) |-> DeserializeEntry(x.Ntry[i])]), LAMBDA entries :
        IF ~IsSome(x.Acct) THEN Err("XmlDe")
        ELSE IF ~entries.ok THEN entries
        ELSE Ok([period |-> x.FrToDt, account |-> x.Acct[1],
                 balances |-> x.Bal, entries |-> entries.val]))

\* from_str::<Camt053Document>: the root has to hold <BkToCstmrStmt>
DeserializeDocument(xml) ==
    Bind(Collect([i \in 1..Len(xml.stmts) |-> DeserializeStatement(xml.stmts[i])]),
         LAMBDA statements :
        IF xml.root # "Document" THEN Err("XmlDe")
        ELSE IF ~statements.ok THEN statements
        ELSE Ok([statements |-> statements.val]))

\* from_str::<Camt053Statement>: the root has to hold the children of a <Stmt>
DeserializeStatementRoot(xml) ==
    IF xml.root # "Stmt" THEN Err("XmlDe") ELSE DeserializeStatement(xml.stmts[1])

\* Serialize for Camt053Entry and Camt053Statement
SerializeEntry(e) ==
    [Amt |-> e.amount, CdtDbtInd |-> e.cdt_dbt_ind, BookgDt |-> e.booking_date,
     ValDt |-> Some(e.value_date), NtryDtls |-> e.details]

SerializeStatement(st) ==
    [Acct |-> Some(st.account), FrToDt |-> st.period, Bal |-> st.balances,
     Ntry |-> [i \in 1..Len(st.entries) |-> SerializeEntry(st.entries[i])]]

(***************************************************************************)
(* camt053/utils.rs                                                        *)
(***************************************************************************)
\* detect_currency with the first balance asked before the account
detect_currency_balance_first(stmt) ==
    IF stmt.balances # <<>> THEN Ok(parse_currency(stmt.balances[1].amount.currency))
    ELSE IF IsSome(stmt.account.currency) THEN Ok(parse_currency(stmt.account.currency[1]))
    ELSE IF stmt.entries # <<>> THEN Ok(parse_currency(stmt.entries[1].amount.currency))
    ELSE Err("InvalidCurrency")

detect_currency(stmt) ==
    IF IsSome(stmt.account.currency) THEN Ok(parse_currency(stmt.account.currency[1]))
    ELSE IF stmt.balances # <<>> THEN Ok(parse_currency(stmt.balances[1].amount.currency))
    ELSE IF stmt.entries # <<>> THEN Ok(parse_currency(stmt.entries[1].amount.currency))
    ELSE Err("InvalidCurrency")

balance_from_camt(bal) ==
    IF bal.cdt_dbt_ind = Some(<<"C", "R", "D", "T">>) THEN parse_signed_balance(bal.amount.value, "Credit")
    ELSE IF bal.cdt_dbt_ind = Some(<<"D", "B", "I", "T">>) THEN parse_signed_balance(bal.amount.value, "Debit")
    ELSE Err("InvalidAmount")

\* Result::ok()
OkOption(r) == IF r.ok THEN Some(r.val) ELSE None

\* <<opening, closing>>
RECURSIVE BalanceLoop(_, _, _)
BalanceLoop(balances, opening, closing) ==
    IF balances = <<>> THEN <<opening, closing>>
    ELSE Bind(Head(balances).balance_type.code_or_proprietary.code, LAMBDA code :
         Bind(OkOption(balance_from_camt(Head(balances))), LAMBDA parsed :
             BalanceLoop(Tail(balances),
                         IF code = Some(<<"O", "P", "B", "D">>) THEN parsed ELSE opening,
                         IF code = Some(<<"C", "L", "B", "D">>) THEN parsed ELSE closing)))

extract_balances(stmt) == BalanceLoop(stmt.balances, None, None)

\* chrono's %Y-%m-%d: a year of one to four digits, month and day of one or two
\* the date of the three parts of a dashed date
YmdOf(parts) ==
    IF \E i \in 1..3 : parts[i] = <<>> \/ ~AllDigits(parts[i]) THEN None
    ELSE IF Len(parts[1]) > 4 \/ Len(parts[2]) > 2 \/ Len(parts[3]) > 2 THEN None
    ELSE FromYmdOpt(DigitsValue(parts[1]), DigitsValue(parts[2]), DigitsValue(parts[3]))

ParseYmd(s) ==
    Bind(SplitChar(s, "-"), LAMBDA parts : IF Len(parts) # 3 THEN None ELSE YmdOf(parts))

\* chrono's %H:%M:%S
IsHms(s) ==
    Bind(SplitChar(s, ":"), LAMBDA parts :
        /\ Len(parts) = 3
        /\ \A i \in 1..3 : parts[i] # <<>> /\ AllDigits(parts[i]) /\ Len(parts[i]) <= 2
        /\ DigitsValue(parts[1]) <= 23 /\ DigitsValue(parts[2]) <= 59
        /\ DigitsValue(parts[3]) <= 60)

\* NaiveDateTime::parse_from_str(s, "%Y-%m-%dT%H:%M:%S"), the date of it
ParseYmdTHms(s, t) ==
    IF ~IsSome(t) THEN None
    ELSE IF IsHms(From(s, t[1] + 1)) THEN ParseYmd(SubSeq(s, 1, t[1]))
    ELSE None

parse_camt_date_to_naive(s) ==
    Bind(ParseYmd(s), LAMBDA d :
    Bind(ParseYmdTHms(s, Find(s, <<"T">>)), LAMBDA dt :
        IF IsSome(d) THEN Ok(d[1])
        ELSE IF IsSome(dt) THEN Ok(dt[1])
        ELSE Err("BadInput")))

\* <<min, max>> of the booking dates, as Options
RECURSIVE PeriodLoop(_, _, _)
PeriodLoop(entries, min_date, max_date) ==
    IF entries = <<>> THEN Ok(<<min_date, max_date>>)
    ELSE Bind(parse_camt_date_to_naive(Head(entries).booking_date.date), LAMBDA d :
             IF ~d.ok THEN d
             ELSE PeriodLoop(Tail(entries),
                             Some(IF IsSome(min_date) THEN DateMin(min_date[1], d.val) ELSE d.val),
                             Some(IF IsSome(max_date) THEN DateMax(max_date[1], d.val) ELSE d.val)))

\* the period that <FrToDt> gives
GivenPeriod(from, to) ==
    IF ~from.ok THEN from ELSE IF ~to.ok THEN to ELSE Ok(<<from.val, to.val>>)

\* the period that the booking dates of the entries span
SpannedPeriod(span) ==
    IF ~span.ok THEN span
    ELSE IF IsSome(span.val[1]) /\ IsSome(span.val[2]) THEN Ok(<<span.val[1][1], span.val[2][1]>>)
    ELSE Err("BadInput")

\* detect_period with the booking dates asked before <FrToDt>
detect_period_entries_first(stmt) ==
    IF stmt.entries # <<>> \/ ~IsSome(stmt.period)
       \/ ~IsSome(stmt.period[1].from) \/ ~IsSome(stmt.period[1].to)
    THEN SpannedPeriod(PeriodLoop(stmt.entries, None, None))
    ELSE GivenPeriod(parse_camt_date_to_naive(stmt.period[1].from[1]),
                     parse_camt_date_to_naive(stmt.period[1].to[1]))

detect_period(stmt) ==
    IF IsSome(stmt.period) /\ IsSome(stmt.period[1].from) /\ IsSome(stmt.period[1].to)
    THEN GivenPeriod(parse_camt_date_to_naive(stmt.period[1].from[1]),
                     parse_camt_date_to_naive(stmt.period[1].to[1]))
    ELSE SpannedPeriod(PeriodLoop(stmt.entries, None, None))

\* Option::or and Option::and_then over the parties of a transaction
OrElse(a, b) == IF IsSome(a) THEN a ELSE b

counterparty_from_tx(tx, direction) ==
    LET parties == tx.related_parties[1]
        party_opt == IF direction = "Debit"
                     THEN OrElse(parties.ultimate_creditor, parties.creditor)
                     ELSE OrElse(parties.ultimate_debtor, parties.debtor)
        counterparty_name == IF IsSome(party_opt) THEN party_opt[1].name ELSE None
        account_opt == IF direction = "Debit" THEN parties.creditor_account ELSE parties.debtor_account
        counterparty_id == IF IsSome(account_opt) THEN account_opt[1].id.iban ELSE None
    IN IF ~IsSome(tx.related_parties) THEN <<None, None>>
       ELSE <<counterparty_id, counterparty_name>>

description_from_tx(tx) ==
    IF IsSome(tx.rmt_inf) /\ tx.rmt_inf[1].unstructured # <<>>
    THEN Join(tx.rmt_inf[1].unstructured, <<"\n">>)
    ELSE <<>>

(***************************************************************************)
(* camt053.rs                                                              *)
(***************************************************************************)
\* Camt053Data::parse: the first <Stmt> of a <Document>, else a bare <Stmt>
Camt053Data_parse(xml) ==
    Bind(DeserializeDocument(xml), LAMBDA document :
    Bind(DeserializeStatementRoot(xml), LAMBDA stmt :
        IF document.ok
        THEN (IF document.val.statements = <<>> THEN Err("BadInput")
              ELSE Ok([statement |-> document.val.statements[1]]))
        ELSE IF ~stmt.ok THEN stmt ELSE Ok([statement |-> stmt.val])))

\* TryFrom<&Camt053Entry> for Transaction
TransactionFromCamt053Entry(entry) ==
    Bind(IF entry.cdt_dbt_ind = <<"C", "R", "D", "T">> THEN "Credit" ELSE "Debit",
         LAMBDA direction :
    Bind(parse_amount(entry.amount.value), LAMBDA amount :
    Bind(parse_camt_date_to_naive(entry.booking_date.date), LAMBDA booking_date :
    Bind(parse_camt_date_to_naive(entry.value_date.date), LAMBDA value_date :
    Bind(IsSome(entry.details) /\ entry.details[1].tx_details # <<>>, LAMBDA has_details :
    Bind(IF has_details THEN counterparty_from_tx(entry.details[1].tx_details[1], direction)
         ELSE <<None, None>>, LAMBDA cp :
        IF entry.cdt_dbt_ind \notin {<<"C", "R", "D", "T">>, <<"D", "B", "I", "T">>}
        THEN Err("InvalidAmount")
        ELSE IF ~amount.ok THEN amount
        ELSE IF ~booking_date.ok THEN booking_date
        ELSE IF ~value_date.ok THEN value_date
        ELSE Ok(Transaction(booking_date.val, Some(value_date.val), amount.val, direction,
                            IF has_details
                            THEN description_from_tx(entry.details[1].tx_details[1])
                            ELSE <<>>,
                            cp[1], cp[2]))))))))

\* TryFrom<Camt053Statement> for Statement
StatementFromCamt053Statement(statement) ==
    Bind(detect_currency(statement), LAMBDA currency :
    Bind(extract_balances(statement), LAMBDA balances :
    Bind(detect_period(statement), LAMBDA period :
    Bind(Collect([i \in 1..Len(statement.entries) |->
                    TransactionFromCamt053Entry(statement.entries[i])]), LAMBDA transactions :
        IF ~currency.ok THEN currency
        ELSE IF ~period.ok THEN period
        ELSE IF ~transactions.ok THEN transactions
        ELSE Ok(Statement(IF IsSome(statement.account.id.iban)
                          THEN statement.account.id.iban[1]
                          ELSE <<"n", "o", "t", " ", "p", "r", "o", "v", "i", "d", "e", "d">>,
                          statement.account.name, currency.val,
                          balances[1], balances[2], transactions.val,
                          period.val[1], period.val[2]))))))

DecodeCamt053Xml(xml) ==
    Bind(Camt053Data_parse(xml), LAMBDA data :
        IF ~data.ok THEN data ELSE StatementFromCamt053Statement(data.val.statement))

(***************************************************************************)
(* serialization/camt053_helpers.rs and Statement::write_camt053           *)
(***************************************************************************)
Camt053CurrencyCode(cur) ==
    IF cur.tag = "RUB" THEN <<"R", "U", "B">>
    ELSE IF cur.tag = "EUR" THEN <<"E", "U", "R">>
    ELSE IF cur.tag = "USD" THEN <<"U", "S", "D">>
    ELSE IF cur.tag = "CNY" THEN <<"C", "N", "Y">>
    ELSE <<"?", "?", "?">>

\* chrono's %Y-%m-%d
format_iso_date(d) == Format04(d.y) \o <<"-">> \o Format02(d.m) \o <<"-">> \o Format02(d.d)

make_balance(code, value, ccy_code) ==
    [balance_type |-> [code_or_proprietary |-> [code |-> Some(code)]],
     amount |-> [currency |-> ccy_code,
                 value |-> IF value >= 0 THEN format_minor_units(value, ".")
                           ELSE format_minor_units(0 - value, ".")],
     cdt_dbt_ind |-> Some(IF value >= 0 THEN <<"C", "R", "D", "T">> ELSE <<"D", "B", "I", "T">>)]

balances_from_statement(stmt, ccy_code) ==
    (IF IsSome(stmt.opening_balance)
     THEN <<make_balance(<<"O", "P", "B", "D">>, stmt.opening_balance[1], ccy_code)>> ELSE <<>>)
    \o (IF IsSome(stmt.closing_balance)
        THEN <<make_balance(<<"C", "L", "B", "D">>, stmt.closing_balance[1], ccy_code)>> ELSE <<>>)

NoParties ==
    [debtor |-> None, debtor_account |-> None, creditor |-> None,
     creditor_account |-> None, ultimate_debtor |-> None, ultimate_creditor |-> None]

\* entry_from_transaction that writes the counterparty as the debtor whatever the direction
entry_from_transaction_as_debtor(tx, ccy_code) ==
    LET rmt_inf == IF tx.description = <<>> THEN None
                   ELSE Some([unstructured |-> <<tx.description>>])
        party == [name |-> tx.counterparty_name]
        account_opt == IF IsSome(tx.counterparty)
                       THEN Some([id |-> [iban |-> Some(tx.counterparty[1])]]) ELSE None
        related_parties ==
            IF ~IsSome(tx.counterparty) /\ ~IsSome(tx.counterparty_name) THEN None
            ELSE Some([NoParties EXCEPT !.debtor = Some(party), !.debtor_account = account_opt])
        tx_dtls == [related_parties |-> related_parties, rmt_inf |-> rmt_inf]
    IN [amount |-> [currency |-> ccy_code, value |-> format_minor_units(tx.amount, ".")],
        cdt_dbt_ind |-> IF tx.direction = "Credit" THEN <<"C", "R", "D", "T">> ELSE <<"D", "B", "I", "T">>,
        booking_date |-> [date |-> format_iso_date(tx.booking_date)],
        value_date |-> [date |-> format_iso_date(IF IsSome(tx.value_date) THEN tx.value_date[1]
                                                 ELSE tx.booking_date)],
        details |-> Some([tx_details |-> <<tx_dtls>>])]

entry_from_transaction(tx, ccy_code) ==
    LET rmt_inf == IF tx.description = <<>> THEN None
                   ELSE Some([unstructured |-> <<tx.description>>])
        party == [name |-> tx.counterparty_name]
        account_opt == IF IsSome(tx.counterparty)
                       THEN Some([id |-> [iban |-> Some(tx.counterparty[1])]]) ELSE None
        related_parties ==
            IF ~IsSome(tx.counterparty) /\ ~IsSome(tx.counterparty_name) THEN None
            ELSE IF tx.direction = "Credit"
            THEN Some([NoParties EXCEPT !.debtor = Some(party), !.debtor_account = account_opt])
            ELSE Some([NoParties EXCEPT !.creditor = Some(party), !.creditor_account = account_opt])
        tx_dtls == [related_parties |-> related_parties, rmt_inf |-> rmt_inf]
    IN [amount |-> [currency |-> ccy_code, value |-> format_minor_units(tx.amount, ".")],
        cdt_dbt_ind |-> IF tx.direction = "Credit" THEN <<"C", "R", "D", "T">> ELSE <<"D", "B", "I", "T">>,
        booking_date |-> [date |-> format_iso_date(tx.booking_date)],
        value_date |-> [date |-> format_iso_date(IF IsSome(tx.value_date) THEN tx.value_date[1]
                                                 ELSE tx.booking_date)],
        details |-> Some([tx_details |-> <<tx_dtls>>])]

entries_from_transactions(txs, ccy_code) ==
    [i \in 1..Len(txs) |-> entry_from_transaction(txs[i], ccy_code)]

write_camt053(stmt) ==
    LET ccy_code == Camt053CurrencyCode(stmt.currency)
        st == [period |-> Some([from |-> Some(format_iso_date(stmt.period_from)),
                                to |-> Some(format_iso_date(stmt.period_until))]),
               account |-> [id |-> [iban |-> Some(stmt.account_id)],
                            name |-> stmt.account_name,
                            currency |-> Some(ccy_code)],
               balances |-> balances_from_statement(stmt, ccy_code),
               entries |-> entries_from_transactions(stmt.transactions, ccy_code)]
    IN [root |-> "Document", stmts |-> <<SerializeStatement(st)>>]

(***************************************************************************)
(* MT940 inputs.  A message is put together from its lines: the opener and *)
(* closer of the block, the :25: line, an opening balance, entries (a :61: *)
(* line with the :86: and continuation lines that follow it), a closing    *)
(* balance, and what follows the block.                                    *)
(***************************************************************************)
MaxTx == 2

MaxHops == 2

\* all sequences over S of length lo..hi
SeqsOf(S, lo, hi) == UNION {[1..k -> S] : k \in lo..hi}

RECURSIVE Flatten(_)
Flatten(seqs) == IF seqs = <<>> THEN <<>> ELSE Head(seqs) \o Flatten(Tail(seqs))

\* every line followed by a line feed
RECURSIVE TextOfLines(_)
TextOfLines(lines) ==
    IF lines = <<>> THEN <<>> ELSE Head(lines) \o <<"\n">> \o TextOfLines(Tail(lines))

BlockKinds == {"Curly", "Paren"}

Closer(kind) == IF kind = "Curly" THEN <<"-", "}">> ELSE <<"-", ")">>

Mt940AccountLine == <<":", "2", "5", ":", "A", "1">>

\* credit EUR, debit USD, an intermediate balance in RUR, a currency outside the table
Mt940Openings ==
    { <<":", "6", "0", "F", ":", "C", "2", "3", "0", "1", "0", "1", "E", "U", "R", "1", ",", "0", "0">>,
      <<":", "6", "0", "F", ":", "D", "2", "3", "0", "1", "0", "1", "U", "S", "D", "0", ",", "5">>,
      <<":", "6", "0", "M", ":", "C", "2", "2", "1", "2", "3", "1", "R", "U", "R", "7">>,
      <<":", "6", "0", "F", ":", "C", "2", "3", "0", "1", "0", "1", "C", "H", "F", "2", ",", "0", "0">> }

\* too short for a balance; a date that is no date; a mark that is neither C nor D
Mt940BadOpenings ==
    { <<":", "6", "0", "F", ":", "C", "2", "3", "0", "1">>,
      <<":", "6", "0", "F", ":", "X", "2", "3", "0", "1", "0", "1", "E", "U", "R", "1", ",", "0", "0">>,
      <<":", "6", "0", "F", ":", "C", "2", "3", "A", "B", "0", "1", "E", "U", "R", "1", ",", "0", "0">> }

Mt940Closings ==
    { <<":", "6", "2", "F", ":", "C", "2", "3", "0", "1", "3", "1", "E", "U", "R", "1", ",", "5", "0">>,
      <<":", "6", "2", "F", ":", "D", "2", "3", "0", "1", "3", "1", "E", "U", "R", "0", ",", "0", "5">> }

\* the 31st of February; a mark that is neither C nor D
Mt940BadClosings ==
    { <<":", "6", "2", "F", ":", "C", "2", "3", "0", "2", "3", "1", "E", "U", "R", "1", ",", "0", "0">>,
      <<":", "6", "2", "F", ":", "N", "2", "3", "0", "1", "3", "1", "E", "U", "R", "1", ",", "0", "0">> }

\* entries the decoder accepts: with references, an IBAN and a name; bare; booked in
\* another month than valued; with continuation lines; with a funds code; with an empty :86:
Mt940Entries ==
    { <<<<":", "6", "1", ":", "2", "3", "0", "1", "0", "2", "0", "1", "0", "3", "C", "1", "0", "0", ",", "0", "0", "N", "T", "R", "F", "R", "E", "F", "1", "/", "/", "B", "A", "N", "K", "1", " ", "e", "x", "t", "r", "a">>,
         <<":", "8", "6", ":", "D", "E", "1", "2", "A", "B", "C", "D", "E", "F", "G", "H", "I", "J", "K", " ", "J", "o", "h", "n", " ", "D", "o", "e">>>>,
      <<<<":", "6", "1", ":", "2", "3", "0", "1", "0", "3", "D", "5", ",", "0", "0">>>>,
      <<<<":", "6", "1", ":", "2", "2", "1", "2", "3", "1", "0", "1", "0", "1", "D", "7", ",", "5">>,
         <<":", "8", "6", ":", "p", "a", "y", "m", "e", "n", "t">>>>,
      <<<<":", "6", "1", ":", "2", "3", "0", "1", "0", "5", "C", "2", ",", "0", "0", "N", "M", "S", "C">>,
         <<":", "8", "6", ":", "r", "e", "n", "t">>,
         <<"D", "E", "1", "2", "A", "B", "C", "D", "E", "F", "G", "H", "I", "J", "K">>,
         <<"J", "a", "n", "e">>>>,
      <<<<":", "6", "1", ":", "2", "3", "0", "1", "0", "6", "D", "R", "3", ",", "0", "0">>,
         <<":", "8", "6", ":", "D", "E", "1", "2", "A", "B", "C", "D", "E", "F", "G", "H", "I", "J", "K">>>>,
      <<<<":", "6", "1", ":", "2", "3", "0", "1", "0", "7", "D", "0", ",", "0", "1">>,
         <<":", "8", "6", ":">>>> }

\* entries that are malformed: too short; valued on the 30th of February; an amount with
\* three decimals; a mark that is neither C nor D; a mark R before the C
Mt940BadEntries ==
    { <<<<":", "6", "1", ":", "2", "3">>>>,
      <<<<":", "6", "1", ":", "2", "3", "0", "1", "0", "9", "X", "5", ",", "0", "0">>>>,
      <<<<":", "6", "1", ":", "2", "3", "0", "1", "0", "6", "R", "C", "3", ",", "0", "0">>>>,
      <<<<":", "6", "1", ":", "2", "3", "0", "2", "3", "0", "C", "1", ",", "0", "0">>>>,
      <<<<":", "6", "1", ":", "2", "3", "0", "1", "0", "8", "C", "1", ",", "2", "3", "4">>>> }

\* what may follow the first block: a complete second message; a second block without
\* :25: and :60F:; a second message with a malformed :61:; a block of the other kind
Mt940Tails ==
    { <<<<"{", "4", ":">>,
         <<":", "2", "5", ":", "B", "2">>,
         <<":", "6", "0", "F", ":", "C", "2", "3", "0", "2", "0", "1", "E", "U", "R", "2", ",", "0", "0">>,
         <<"-", "}">>>>,
      <<<<"{", "4", ":">>,
         <<":", "2", "0", ":", "X">>,
         <<"-", "}">>>>,
      <<<<"{", "4", ":">>,
         <<":", "2", "5", ":", "B", "2">>,
         <<":", "6", "0", "F", ":", "C", "2", "3", "0", "2", "0", "1", "E", "U", "R", "2", ",", "0", "0">>,
         <<":", "6", "1", ":", "2", "3">>,
         <<"-", "}">>>>,
      <<<<"(", "4", ":">>,
         <<":", "2", "0", ":", "X">>,
         <<"-", ")">>>> }

Mt940Doc(kind, account, opening, entries, closing, tail) ==
    TextOfLines(<<Opener(kind)>> \o account \o opening \o Flatten(entries) \o closing
                \o <<Closer(kind)>> \o tail)

Mt940Inputs ==
    LET base == CHOOSE o \in Mt940Openings : o[6] = "C" /\ o[13] = "E"
        openings == {<<o>> : o \in Mt940Openings \cup Mt940BadOpenings}
        closings == {<<>>} \cup {<<c>> : c \in Mt940Closings \cup Mt940BadClosings}
    IN {Mt940Doc(k, <<Mt940AccountLine>>, o, es, c, <<>>) :
            k \in BlockKinds, o \in openings,
            es \in SeqsOf(Mt940Entries \cup Mt940BadEntries, 0, 1), c \in closings}
       \cup {Mt940Doc("Curly", <<Mt940AccountLine>>, <<base>>, es, c, <<>>) :
                es \in SeqsOf(Mt940Entries, 2, MaxTx),
                c \in {<<>>} \cup {<<x>> : x \in Mt940Closings}}
       \cup {Mt940Doc(k, <<Mt940AccountLine>>, <<base>>, es, <<>>, t) :
                k \in BlockKinds, es \in SeqsOf(Mt940Entries, 0, 1), t \in Mt940Tails}
       \cup {Mt940Doc(k, <<>>, <<base>>, <<>>, <<>>, <<>>) : k \in BlockKinds}

(***************************************************************************)
(* CSV inputs: exports in the bank's layout.  The records before the table *)
(* follow the positions CsvHeader reads, the table has the two header      *)
(* records, one record per operation and the footer.                       *)
(***************************************************************************)
\* a record of COLS cells, empty but for the given ones; cells numbered from 0
RECURSIVE RowWith(_, _)
RowWith(row, cells) ==
    IF cells = <<>> THEN row
    ELSE RowWith([row EXCEPT ![Head(cells)[1] + 1] = Head(cells)[2]], Tail(cells))

Row(cells) == RowWith(empty_row, cells)

CsvAccount == <<"A", "1">>

\* the name of the account holder in the header: given, or left empty
CsvNames == {<<"M", "e">>, <<>>}

\* the currency cell: a name of the table, codes in either case, a code outside the table
CsvCurrencies ==
    {<<"Rossiyskiy rubl">>, <<"U", "S", "D">>, <<"e", "u", "r">>, <<"C", "H", "F">>}

\* the period cells <<from, until>>: as the bank prints them; without the lead-in words
\* and with a one-digit day; with a month that is none
CsvPeriods ==
    {<<<<"za period s", " ", "0", "1", " ", "yanvarya", " ", "2", "0", "2", "3", " ", "g", ".">>,
       <<"po", " ", "3", "1", " ", "yanvarya", " ", "2", "0", "2", "3", " ", "g", ".">>>>,
     <<<<"1", " ", "fevralya", " ", "2", "0", "2", "4">>,
       <<"2", "9", " ", "fevralya", " ", "2", "0", "2", "4", " ", "g", ".">>>>}

CsvBadPeriods ==
    {<<<<"za period s", " ", "0", "1", " ", "yanvarya", " ", "2", "0", "2", "3", " ", "g", ".">>,
       <<"po", " ", "3", "1", " ", "m", "a", "r", "t", "o", "b", "r", "y", "a", " ", "2", "0", "2", "3", " ", "g", ".">>>>}

\* operations the decoder accepts:
\*   a debit to a named counterparty, the amount with a space and a comma
\*   a credit from a counterparty whose block has two lines, no purpose
\*   a credit with an empty debit block and a purpose with spaces around it
\*   a debit whose blocks do not name the account of the statement
\*   a debit with the account of the statement on the credit side
CsvRows ==
    { Row(<<<<1, <<"0", "3", ".", "0", "1", ".", "2", "0", "2", "3">>>>, <<4, <<"A", "1", "\n", "7", "7", "\n", "M", "e">>>>, <<8, <<"X", "1", "\n", "7", "8", "\n", "B", "o", "b">>>>, <<9, <<"1", " ", "2", "3", "4", ",", "5", "6">>>>, <<20, <<"p", "a", "y">>>>>>),
      Row(<<<<1, <<"0", "4", ".", "0", "1", ".", "2", "0", "2", "3">>>>, <<4, <<"X", "2", "\n", "J", "i", "m">>>>, <<8, <<"A", "1", "\n", "7", "7", "\n", "M", "e">>>>, <<13, <<"5", ".", "0", "0">>>>>>),
      Row(<<<<1, <<"5", ".", "1", ".", "2", "0", "2", "3">>>>, <<8, <<"A", "1", "\n", "7", "7", "\n", "M", "e">>>>, <<13, <<"0", ",", "5">>>>, <<20, <<" ", "f", "e", "e", " ">>>>>>),
      Row(<<<<1, <<"0", "6", ".", "0", "1", ".", "2", "0", "2", "3">>>>, <<4, <<"Y", "1", "\n", "-", "\n", "Z", "e", "d">>>>, <<9, <<"7">>>>, <<20, <<"a", "\n", "b">>>>>>),
      Row(<<<<1, <<"0", "7", ".", "0", "1", ".", "2", "0", "2", "3">>>>, <<4, <<"X", "3", "\n", "7", "9", "\n", "A", "n", "n">>>>, <<8, <<"A", "1">>>>, <<9, <<"2", ".", "5", "0">>>>, <<20, <<"b", "a", "c", "k">>>>>>) }

\* operations the decoder refuses: both amounts filled; the 31st of February
CsvBadRows ==
    { Row(<<<<1, <<"0", "8", ".", "0", "1", ".", "2", "0", "2", "3">>>>, <<4, <<"A", "1">>>>, <<9, <<"1", ".", "0", "0">>>>, <<13, <<"1", ".", "0", "0">>>>>>),
      Row(<<<<1, <<"3", "1", ".", "0", "2", ".", "2", "0", "2", "3">>>>, <<4, <<"A", "1">>>>, <<9, <<"1", ".", "0", "0">>>>>>) }

\* footers after the b/s record: both balances, the closing one a debit; an opening
\* balance of nothing and a closing one with a space in it
CsvFooters ==
    { <<Row(<<<<1, <<"Vkhodyashchiy ostatok">>>>, <<7, <<"0", ",", "0", "0">>>>, <<11, <<"1", "0", "0", ".", "0", "0">>>>>>),
         Row(<<<<1, <<"Itogo oborotov">>>>, <<7, <<"1", ".", "0", "0">>>>, <<11, <<"2", ".", "0", "0">>>>>>),
         Row(<<<<1, <<"Iskhodyashchiy ostatok">>>>, <<7, <<"0", ",", "5", "0">>>>, <<11, <<"0", ".", "0", "0">>>>>>)>>,
      <<Row(<<<<1, <<"Vkhodyashchiy ostatok">>>>, <<7, <<>>>>, <<11, <<>>>>>>),
         Row(<<<<1, <<"Iskhodyashchiy ostatok">>>>, <<7, <<>>>>, <<11, <<"1", " ", "0", "0", "0", ",", "5">>>>>>)>> }

\* footers the decoder refuses: no closing balance; an opening balance on both sides
CsvBadFooters ==
    { <<Row(<<<<1, <<"Vkhodyashchiy ostatok">>>>, <<7, <<"0", ",", "0", "0">>>>, <<11, <<"1", "0", "0", ".", "0", "0">>>>>>),
         Row(<<<<1, <<"Itogo oborotov">>>>, <<7, <<"1", ".", "0", "0">>>>, <<11, <<"2", ".", "0", "0">>>>>>)>>,
      <<Row(<<<<1, <<"Vkhodyashchiy ostatok">>>>, <<7, <<"1", ",", "0", "0">>>>, <<11, <<"1", "0", "0", ".", "0", "0">>>>>>),
         Row(<<<<1, <<"Iskhodyashchiy ostatok">>>>, <<7, <<"0", ",", "5", "0">>>>, <<11, <<"0", ".", "0", "0">>>>>>)>> }

CsvTableHeaders ==
    <<Row(<<<<1, <<"Data provodki">>>>, <<4, <<"Schet">>>>, <<9, <<"Summa po debetu">>>>,
            <<13, <<"Summa po kreditu">>>>, <<14, <<"No dokumenta">>>>, <<16, <<"VO">>>>,
            <<17, <<"Bank", " (BIK i naimenovanie)">>>>, <<20, <<"Naznachenie platezha">>>>>>),
      Row(<<<<4, <<"Debet">>>>, <<8, <<"Kredit">>>>>>)>>

CsvDoc(name, currency, period, rows, footer) ==
    <<Row(<<<<1, <<"now">>>>>>),
      Row(<<<<5, <<"SberBiznes. eksport vypiski">>>>>>),
      Row(<<<<1, <<"PAO SBERBANK">>>>>>),
      Row(<<<<1, <<"Data formirovaniya vypiski", " ", "now">>>>>>),
      Row(<<<<1, <<"VYPISKA OPERATSIY PO LITSEVOMU SCHETU">>>>, <<12, CsvAccount>>>>),
      Row(<<<<12, name>>>>),
      Row(<<<<2, period[1]>>, <<14, <<"po">>>>, <<15, period[2]>>>>),
      Row(<<<<2, currency>>>>),
      empty_row>>
    \o CsvTableHeaders \o rows
    \o <<Row(<<<<1, <<"b/s">>>>, <<3, CsvAccount>>>>)>> \o footer

CsvInputs ==
    LET name == CHOOSE n \in CsvNames : n # <<>>
        currency == CHOOSE c \in CsvCurrencies : Len(c) = 1
        period == CHOOSE p \in CsvPeriods : Len(p[1]) > 8
        footer == CHOOSE f \in CsvFooters : Len(f) = 3
    IN {CsvDoc(n, c, p, rows, f) :
            n \in CsvNames, c \in CsvCurrencies, p \in CsvPeriods,
            rows \in SeqsOf(CsvRows, 0, 1), f \in CsvFooters}
       \cup {CsvDoc(name, currency, period, rows, f) :
                rows \in SeqsOf(CsvRows \cup CsvBadRows \cup {empty_row}, 0, 1),
                f \in CsvFooters \cup CsvBadFooters}
       \cup {CsvDoc(name, currency, p, <<>>, footer) : p \in CsvBadPeriods}
       \cup {CsvDoc(name, currency, period, rows, footer) :
                rows \in SeqsOf(CsvRows \cup {empty_row}, 2, MaxTx)}
       \cup {Tail(CsvDoc(name, currency, period, <<>>, footer))}

(***************************************************************************)
(* camt.053 inputs: element trees of documents as banks send them.         *)
(***************************************************************************)
CamtAmount(ccy, value) == [currency |-> ccy, value |-> value]

CamtBalance(code, value, ind) ==
    [balance_type |-> [code_or_proprietary |-> [code |-> code]],
     amount |-> CamtAmount(<<"E", "U", "R">>, value), cdt_dbt_ind |-> ind]

CamtParty(name) == Some([name |-> name])

CamtAccount(iban) == Some([id |-> [iban |-> iban]])

CamtDetails(parties, ustrd) ==
    Some([tx_details |-> <<[related_parties |-> parties,
                            rmt_inf |-> IF ustrd = <<>> THEN None
                                        ELSE Some([unstructured |-> ustrd])]>>])

CamtEntry(value, ind, bookg, val, details) ==
    [Amt |-> CamtAmount(<<"E", "U", "R">>, value), CdtDbtInd |-> ind,
     BookgDt |-> [date |-> bookg], ValDt |-> val, NtryDtls |-> details]

CRDT == <<"C", "R", "D", "T">>

DBIT == <<"D", "B", "I", "T">>

Iban == <<"D", "E", "1", "2", "A", "B", "C", "D", "E", "F", "G", "H", "I", "J", "K">>

\* <Acct>: with IBAN, name and currency; with a currency in lower case only; with nothing
CamtAccts ==
    { [id |-> [iban |-> Some(Iban)], name |-> Some(<<"M", "e">>), currency |-> Some(<<"E", "U", "R">>)],
      [id |-> [iban |-> None], name |-> None, currency |-> Some(<<"u", "s", "d">>)],
      [id |-> [iban |-> Some(<<"A", "1">>)], name |-> Some(<<>>), currency |-> None] }

\* <FrToDt>: dates; date-times; missing; an end that is no date
CamtPeriods ==
    { Some([from |-> Some(<<"2", "0", "2", "3", "-", "0", "1", "-", "0", "1">>), to |-> Some(<<"2", "0", "2", "3", "-", "0", "1", "-", "3", "1">>)]),
      Some([from |-> Some(<<"2", "0", "2", "3", "-", "0", "1", "-", "0", "1", "T", "0", "0", ":", "0", "0", ":", "0", "0">>), to |-> Some(<<"2", "0", "2", "3", "-", "0", "1", "-", "3", "1", "T", "2", "3", ":", "5", "9", ":", "5", "9">>)]),
      None }

CamtBadPeriods ==
    { Some([from |-> Some(<<"2", "0", "2", "3", "-", "0", "1", "-", "0", "1">>), to |-> Some(<<"2", "0", "2", "3", "-", "0", "2", "-", "3", "0">>)]) }

\* the <Bal> elements: both booked balances; a debit opening balance and an interim one;
\* none; an OPBD whose amount has three decimals; a CLBD without indicator; an OPBD
\* with an indicator that is none
CamtBals ==
    { <<CamtBalance(Some(<<"O", "P", "B", "D">>), <<"1", "0", "0", ".", "0", "0">>, Some(CRDT)),
        CamtBalance(Some(<<"C", "L", "B", "D">>), <<"1", ".", "5">>, Some(CRDT))>>,
      <<CamtBalance(Some(<<"O", "P", "B", "D">>), <<"0", ".", "0", "5">>, Some(DBIT)),
        CamtBalance(Some(<<"I", "T", "B", "D">>), <<"3">>, Some(CRDT)),
        CamtBalance(Some(<<"C", "L", "B", "D">>), <<"2", ",", "0", "0">>, Some(DBIT))>>,
      <<>> }

CamtBadBals ==
    { <<CamtBalance(Some(<<"O", "P", "B", "D">>), <<"1", ".", "2", "3", "4">>, Some(CRDT)),
        CamtBalance(Some(<<"C", "L", "B", "D">>), <<"1", ".", "5">>, Some(CRDT))>>,
      <<CamtBalance(Some(<<"O", "P", "B", "D">>), <<"1", "0", "0", ".", "0", "0">>, Some(CRDT)),
        CamtBalance(Some(<<"C", "L", "B", "D">>), <<"1", ".", "5">>, None)>>,
      <<CamtBalance(Some(<<"O", "P", "B", "D">>), <<"1", "0", "0", ".", "0", "0">>, Some(<<"C", "R">>)),
        CamtBalance(Some(<<"C", "L", "B", "D">>), <<"1", ".", "5">>, Some(CRDT))>> }

\* entries the decoder accepts: a credit valued the day before it is booked, from a
\* debtor with name and IBAN; a debit without details; a debit with an ultimate creditor
\* and two remittance lines; a credit with a date-time and a debtor's name only; a debit
\* booked on the 29th of February and valued the year before
CamtEntries ==
    { CamtEntry(<<"1", "0", "0", ".", "0", "0">>, CRDT, <<"2", "0", "2", "3", "-", "0", "1", "-", "0", "3">>, Some([date |-> <<"2", "0", "2", "3", "-", "0", "1", "-", "0", "2">>]),
                CamtDetails(Some([NoParties EXCEPT !.debtor = CamtParty(Some(<<"B", "o", "b">>)),
                                                   !.debtor_account = CamtAccount(Some(Iban))]),
                            <<<<"i", "n", "v", " ", "1">>>>)),
      CamtEntry(<<"5", ".", "5">>, DBIT, <<"2", "0", "2", "3", "-", "0", "1", "-", "0", "4">>, Some([date |-> <<"2", "0", "2", "3", "-", "0", "1", "-", "0", "4">>]), None),
      CamtEntry(<<"7">>, DBIT, <<"2", "0", "2", "3", "-", "0", "1", "-", "0", "5">>, Some([date |-> <<"2", "0", "2", "3", "-", "0", "1", "-", "0", "6">>]),
                CamtDetails(Some([NoParties EXCEPT !.creditor = CamtParty(Some(<<"A", "l">>)),
                                                   !.ultimate_creditor = CamtParty(Some(<<"C", "y">>)),
                                                   !.creditor_account = CamtAccount(Some(<<"X", "1">>))]),
                            <<<<"a">>, <<"b">>>>)),
      CamtEntry(<<"1", ",", "2", "3", "4", ".", "5", "6">>, CRDT, <<"2", "0", "2", "3", "-", "0", "1", "-", "0", "7", "T", "1", "0", ":", "0", "0", ":", "0", "0">>, Some([date |-> <<"2", "0", "2", "3", "-", "0", "1", "-", "0", "7">>]),
                CamtDetails(Some([NoParties EXCEPT !.debtor = CamtParty(Some(<<"D", "e", "e">>))]), <<>>)),
      CamtEntry(<<"0", ".", "0", "1">>, DBIT, <<"2", "0", "2", "4", "-", "0", "2", "-", "2", "9">>, Some([date |-> <<"2", "0", "2", "3", "-", "1", "2", "-", "3", "1">>]),
                CamtDetails(None, <<<<"f", "e", "e">>>>)) }

\* entries that are malformed: an indicator that is none; an amount with three decimals;
\* a booking date that is no date; no <ValDt>
CamtBadEntries ==
    { CamtEntry(<<"1", ".", "0", "0">>, <<"C", "R">>, <<"2", "0", "2", "3", "-", "0", "1", "-", "0", "8">>, Some([date |-> <<"2", "0", "2", "3", "-", "0", "1", "-", "0", "8">>]), None),
      CamtEntry(<<"1", ".", "2", "3", "4">>, CRDT, <<"2", "0", "2", "3", "-", "0", "1", "-", "0", "8">>, Some([date |-> <<"2", "0", "2", "3", "-", "0", "1", "-", "0", "8">>]), None),
      CamtEntry(<<"1", ".", "0", "0">>, CRDT, <<"2", "0", "2", "3", "-", "1", "3", "-", "0", "8">>, Some([date |-> <<"2", "0", "2", "3", "-", "0", "1", "-", "0", "8">>]), None),
      CamtEntry(<<"1", ".", "0", "0">>, CRDT, <<"2", "0", "2", "3", "-", "0", "1", "-", "0", "8">>, None, None) }

CamtStmt(acct, period, bals, entries) ==
    [Acct |-> acct, FrToDt |-> period, Bal |-> bals, Ntry |-> entries]

CamtDoc(root, stmts) == [root |-> root, stmts |-> stmts]

\* <Stmt> elements that may follow the first: a complete one; one whose entry is
\* malformed; one without <Acct>
CamtLaterStmts ==
    LET acct == CHOOSE a \in CamtAccts : IsSome(a.name) /\ a.name[1] # <<>>
        period == CHOOSE p \in CamtPeriods : IsSome(p) /\ Len(p[1].from[1]) = 10
    IN { CamtStmt(Some(acct), period, <<>>, <<>>),
         CamtStmt(Some(acct), period, <<>>, <<CHOOSE e \in CamtBadEntries : Len(e.CdtDbtInd) = 2>>),
         CamtStmt(None, period, <<>>, <<>>) }

CamtInputs ==
    LET acct == CHOOSE a \in CamtAccts : IsSome(a.name) /\ a.name[1] # <<>>
        period == CHOOSE p \in CamtPeriods : IsSome(p) /\ Len(p[1].from[1]) = 10
        bals == CHOOSE b \in CamtBals : Len(b) = 2
    IN {CamtDoc("Document", <<CamtStmt(Some(a), p, b, es)>>) :
            a \in CamtAccts, p \in CamtPeriods, b \in CamtBals, es \in SeqsOf(CamtEntries, 0, 1)}
       \cup {CamtDoc("Document", <<CamtStmt(Some(acct), p, b, es)>>) :
                p \in CamtPeriods \cup CamtBadPeriods, b \in CamtBals \cup CamtBadBals,
                es \in SeqsOf(CamtEntries \cup CamtBadEntries, 0, 1)}
       \cup {CamtDoc("Document", <<CamtStmt(Some(acct), period, bals, es)>>) :
                es \in SeqsOf(CamtEntries, 2, MaxTx)}
       \cup {CamtDoc(r, <<CamtStmt(a, period, bals, es)>>) :
                r \in {"Document", "Stmt"}, a \in {Some(acct), None},
                es \in SeqsOf(CamtEntries, 0, 1)}
       \cup {CamtDoc("Document", <<CamtStmt(Some(acct), period, bals, es), later>>) :
                es \in SeqsOf(CamtEntries, 0, 1), later \in CamtLaterStmts}
       \cup {CamtDoc("Document", <<>>)}

(***************************************************************************)
(* The converter (cli-converter): one run decodes the input file in its    *)
(* format into a Statement and writes it in the output format; the file    *)
(* written is the input of the next run.                                   *)
(*   pc    "input": doc waits to be decoded; "decoded": res holds the      *)
(*         outcome of decoding doc                                         *)
(*   doc   the document [format, body]                                     *)
(*   res   the outcome of the last decode, a Result                        *)
(*   first the outcome of decoding the file the chain started from         *)
(*   prev  the Statement that doc was written from, an Option              *)
(*   path  the formats decoded so far                                      *)
(*   origin the file the chain started from                                *)
(***************************************************************************)
Document(format, body) == [format |-> format, body |-> body]

InitOn(inputs) ==
    /\ pc = "input"
    /\ doc \in inputs
    /\ res = Err("NotDecoded")
    /\ first = Err("NotDecoded")
    /\ prev = None
    /\ path = <<>>
    /\ origin = doc

InitMt940 == InitOn({Document("mt940", b) : b \in Mt940Inputs})

InitCsv == InitOn({Document("csv", b) : b \in CsvInputs})

InitCamt053 == InitOn({Document("camt053", b) : b \in CamtInputs})

\* the first input is a file of any of the three formats
Init ==
    \/ InitMt940
    \/ InitCsv
    \/ InitCamt053

\* run(): Format::Mt940 => Mt940Data::parse(reader)? then Statement::try_from(data)?
DecodeMt940 ==
    /\ pc = "input"
    /\ doc.format = "mt940"
    /\ res' = DecodeMt940Text(doc.body)
    /\ first' = IF path = <<>> THEN res' ELSE first
    /\ path' = Append(path, "mt940")
    /\ pc' = "decoded"
    /\ UNCHANGED <<doc, prev, origin>>

\* run(): Format::Csv => CsvData::parse(reader)? then Statement::try_from(data)?
DecodeCsv ==
    /\ pc = "input"
    /\ doc.format = "csv"
    /\ res' = DecodeCsvRows(doc.body)
    /\ first' = IF path = <<>> THEN res' ELSE first
    /\ path' = Append(path, "csv")
    /\ pc' = "decoded"
    /\ UNCHANGED <<doc, prev, origin>>

\* run(): Format::Camt053 => Camt053Data::parse(reader)? then Statement::try_from(data)?
DecodeCamt053 ==
    /\ pc = "input"
    /\ doc.format = "camt053"
    /\ res' = DecodeCamt053Xml(doc.body)
    /\ first' = IF path = <<>> THEN res' ELSE first
    /\ path' = Append(path, "camt053")
    /\ pc' = "decoded"
    /\ UNCHANGED <<doc, prev, origin>>

\* write_output(): Format::Mt940 => statement.write_mt940(writer)?
WriteMt940 ==
    /\ pc = "decoded"
    /\ res.ok
    /\ Len(path) <= MaxHops
    /\ doc' = Document("mt940", write_mt940(res.val))
    /\ prev' = Some(res.val)
    /\ pc' = "input"
    /\ UNCHANGED <<res, first, path, origin>>

\* write_output(): Format::Csv => statement.write_csv(writer)?
WriteCsv ==
    /\ pc = "decoded"
    /\ res.ok
    /\ Len(path) <= MaxHops
    /\ doc' = Document("csv", write_csv(res.val))
    /\ prev' = Some(res.val)
    /\ pc' = "input"
    /\ UNCHANGED <<res, first, path, origin>>

\* write_output(): Format::Camt053 => statement.write_camt053(writer)?
WriteCamt053 ==
    /\ pc = "decoded"
    /\ res.ok
    /\ Len(path) <= MaxHops
    /\ doc' = Document("camt053", write_camt053(res.val))
    /\ prev' = Some(res.val)
    /\ pc' = "input"
    /\ UNCHANGED <<res, first, path, origin>>

(***************************************************************************)
(* parse_amount and format_minor_units on their own: doc holds an amount   *)
(* text, res the outcome of parse_amount for it, prev the value that the   *)
(* text was formatted from.                                                *)
(***************************************************************************)
\* what stands before the amount: nothing, a space, a minus, a space and a minus
AmountLeads == {<<>>, <<" ">>, <<"-">>, <<" ", "-">>}

\* integer parts: none, zero, digits, with spaces or commas between the thousands,
\* a letter, a plus before the digits
AmountInts ==
    { <<>>, <<"0">>, <<"7">>, <<"4", "2">>, <<"1", " ", "2", "3", "4">>,
      <<"1", ",", "2", "3", "4">>, <<"a">>, <<"+", "3">> }

\* fractions: none, after a point or a comma no, one, two and three digits, a
\* letter, a plus before a digit, a second point or comma
AmountFracs ==
    { <<>>, <<".">>, <<".", "5">>, <<".", "5", "0">>, <<".", "0", "5">>,
      <<".", "5", "6">>, <<".", "2", "3", "4">>, <<".", "x">>, <<".", "x", "y">>,
      <<".", "+", "5">>, <<",">>, <<",", "5">>, <<",", "5", "6">>,
      <<",", "2", "3", "4">>, <<".", "2", ".", "3">>, <<",", "2", ",", "3">> }

AmountTrails == {<<>>, <<" ">>}

AmountInputs ==
    {l \o i \o f \o t : l \in AmountLeads, i \in AmountInts, f \in AmountFracs,
                         t \in AmountTrails}

\* the greatest value that is formatted before anything is parsed
MaxMinor == 210

\* an amount text as it comes, or the text that format_minor_units gives for a value
InitAmount ==
    \/ InitOn({Document("amount", b) : b \in AmountInputs})
    \/ /\ pc = "input"
       /\ \E value \in 0..MaxMinor, decimal_separator \in {".", ","} :
             /\ doc = Document("amount", format_minor_units(value, decimal_separator))
             /\ prev = Some(value)
       /\ res = Err("NotDecoded")
       /\ first = Err("NotDecoded")
       /\ path = <<>>
       /\ origin = doc

\* parse_amount(raw)
ParseAmount ==
    /\ pc = "input"
    /\ doc.format = "amount"
    /\ res' = parse_amount(doc.body)
    /\ first' = IF path = <<>> THEN res' ELSE first
    /\ path' = Append(path, "amount")
    /\ pc' = "decoded"
    /\ UNCHANGED <<doc, prev, origin>>

\* format_minor_units(value, decimal_separator), as the encoders call it
FormatAmount ==
    /\ pc = "decoded"
    /\ doc.format = "amount"
    /\ res.ok
    /\ Len(path) <= MaxHops
    /\ \E decimal_separator \in {".", ","} :
          doc' = Document("amount", format_minor_units(res.val, decimal_separator))
    /\ prev' = Some(res.val)
    /\ pc' = "input"
    /\ UNCHANGED <<res, first, path, origin>>

NextAmount ==
    \/ ParseAmount
    \/ FormatAmount

SpecAmount == InitAmount /\ [][NextAmount]_vars

Next ==
    \/ DecodeMt940
    \/ DecodeCsv
    \/ DecodeCamt053
    \/ WriteMt940
    \/ WriteCsv
    \/ WriteCamt053

Spec == Init /\ [][Next]_vars

\* the converter kept to MT940 on both sides
NextMt940 ==
    \/ DecodeMt940
    \/ WriteMt940

SpecMt940 == InitMt940 /\ [][NextMt940]_vars

\* the converter kept to CSV on both sides
NextCsv ==
    \/ DecodeCsv
    \/ WriteCsv

SpecCsv == InitCsv /\ [][NextCsv]_vars

\* the converter kept to camt.053 on both sides
NextCamt053 ==
    \/ DecodeCamt053
    \/ WriteCamt053

SpecCamt053 == InitCamt053 /\ [][NextCamt053]_vars

(***************************************************************************)
(* Mt940Message::from_string_lines line by line: doc holds the lines not   *)
(* yet read, res the variables of the loop, prev the line read last and    *)
(* origin all the lines of the message.                                    *)
(***************************************************************************)
MsgAccount == <<":", "2", "5", ":", "A", "1">>

MsgOpeningA == <<":", "6", "0", "F", ":", "C", "2", "3", "0", "1", "0", "1", "E", "U", "R", "1", ",", "0", "0">>

MsgOpeningB == <<":", "6", "0", "M", ":", "D", "2", "3", "0", "1", "0", "2", "E", "U", "R", "2", ",", "0", "0">>

MsgClosingA == <<":", "6", "2", "F", ":", "C", "2", "3", "0", "1", "3", "1", "E", "U", "R", "1", ",", "5", "0">>

MsgClosingB == <<":", "6", "2", "M", ":", "D", "2", "3", "0", "1", "3", "0", "E", "U", "R", "0", ",", "0", "5">>

MsgEntryA == <<":", "6", "1", ":", "2", "3", "0", "1", "0", "2", "0", "1", "0", "3", "C", "1", "0", "0", ",", "0", "0", "N", "T", "R", "F", "R", "E", "F", "1", "/", "/", "B", "A", "N", "K", "1">>

MsgEntryB == <<":", "6", "1", ":", "2", "3", "0", "1", "0", "3", "D", "5", ",", "0", "0">>

MsgInfo == <<":", "8", "6", ":", " ", "r", "e", "n", "t", " ">>

MsgText == <<" ", " ", "m", "o", "r", "e", " ", "t", "e", "x", "t", " ">>

\* a :61: line with what follows it up to the next one: nothing; a :86: line; a
\* line of text; a balance, then a :86: line and text; a reference, text with a
\* colon in it and an empty :86:
MsgGroups ==
    { <<MsgEntryA>>,
      <<MsgEntryB, MsgInfo>>,
      <<MsgEntryA, MsgText>>,
      <<MsgEntryB, MsgClosingA, MsgInfo, MsgText>>,
      <<MsgEntryA, <<":", "2", "0", ":", "R", "E", "F">>, <<"x", ":", "y">>, <<":", "8", "6", ":">>>> }

\* what stands before the first :61: line
MsgEarly == {<<>>, <<MsgInfo>>, <<MsgText, MsgInfo>>}

\* the most :61: lines of a message
MaxGroups == 2

\* lines with a tag that the loop does not know
MsgUnknown == {<<":", "9", "9", ":", "z", "z">>, <<":", "N", "S", ":", "n", "o", "t", "e">>, <<":", ":">>, <<":", "6", " ", "1", ":", "2", "3", "0", "1", "0", "3", "D", "5", ",", "0", "0">>, <<" ", ":", "2", "0", "X", ":", "r">>}

\* messages to put a line with an unknown tag into: complete; the least there is;
\* without the account; ending in the text of an entry; with a :61: line that fails
MsgBases ==
    { <<MsgAccount, MsgOpeningA, MsgEntryA, MsgInfo, MsgText, MsgClosingA>>,
      <<MsgAccount, MsgOpeningA>>,
      <<MsgOpeningA, MsgEntryB>>,
      <<<<":", "2", "8", "C", ":", "1", "/", "1">>, MsgAccount, MsgOpeningB, MsgEntryB, MsgText, <<":", "6", "4", ":", "C", "2", "3", "0", "1", "3", "1", "E", "U", "R", "1", ",", "5", "0">>>>,
      <<MsgAccount, MsgOpeningA, <<":", "6", "1", ":", "2", "3">>>> }

\* msg with line put in after its first n lines
InsertLine(msg, n, line) == SubSeq(msg, 1, n) \o <<line>> \o SubSeq(msg, n + 1, Len(msg))

MessageInputs ==
    {<<MsgAccount, MsgOpeningA>> \o early \o Flatten(groups) \o closing :
        early \in MsgEarly, groups \in SeqsOf(MsgGroups, 0, MaxGroups),
        closing \in {<<>>, <<MsgClosingB>>}}
    \cup {account \o openings \o entries \o closings \o late :
            account \in {<<>>, <<MsgAccount>>},
            openings \in {<<>>, <<MsgOpeningA>>, <<MsgOpeningA, MsgOpeningB>>,
                          <<MsgOpeningB, MsgOpeningA>>},
            entries \in {<<>>, <<MsgEntryB, MsgInfo>>},
            closings \in {<<>>, <<MsgClosingA>>, <<MsgClosingA, MsgClosingB>>,
                          <<MsgClosingB, MsgClosingA>>},
            late \in {<<>>, <<MsgOpeningB>>, <<<<":", "o", "o", "p", "s">>>>}}
    \cup UNION {{InsertLine(msg, n, line) : n \in 0..Len(msg), line \in MsgUnknown} :
                    msg \in MsgBases}

InitMessage ==
    /\ pc = "lines"
    /\ doc \in {Document("message", lines) : lines \in MessageInputs}
    /\ res = MessageStart
    /\ first = Err("NotDecoded")
    /\ prev = None
    /\ path = <<>>
    /\ origin = doc

\* for raw_line in lines { .. }: one iteration
ReadMessageLine ==
    /\ pc = "lines"
    /\ doc.body # <<>>
    /\ res.err = "none"
    /\ res' = MessageLine(res, Head(doc.body))
    /\ prev' = Some(Head(doc.body))
    /\ doc' = Document("message", Tail(doc.body))
    /\ UNCHANGED <<pc, first, path, origin>>

\* the `?` of a line that failed, or the end of the lines
FinishMessage ==
    /\ pc = "lines"
    /\ doc.body = <<>> \/ res.err # "none"
    /\ first' = MessageResult(res)
    /\ pc' = "decoded"
    /\ UNCHANGED <<doc, res, prev, path, origin>>

NextMessage ==
    \/ ReadMessageLine
    \/ FinishMessage

SpecMessage == InitMessage /\ [][NextMessage]_vars

(***************************************************************************)
(* Mt940Data::parse line by line: the blocks of an MT940 text              *)
(***************************************************************************)
FrAccountB == <<":", "2", "5", ":", "B", "2">>

\* what stands before the first block
FrBefore == {<<>>, <<<<"j", "u", "n", "k", " ", "-", "}">>, <<>>, <<" ">>>>}

\* the line that opens the first block: an opener alone, one after a header
\* block, both openers in either order, an opener with text after it
FrOpeners == {<<"{", "4", ":">>, <<"(", "4", ":">>, <<"{", "1", ":", "F", "0", "1", "X", "}", "{", "4", ":", " ">>, <<"(", "4", ":", "{", "4", ":">>, <<"x", "{", "4", ":", "(", "4", ":">>, <<"{", "4", ":", ":", "2", "0", ":", "R", "E", "F">>}

\* a line between the account and the opening balance of the first block
FrInner == {<<>>, <<<<")">>>>, <<<<"-", "}">>>>, <<<<"(", "4", ":">>>>, <<<<"{", "4", ":">>>>, <<<<" ", "}", " ", "x">>>>}

\* the end of the first block
FrClosers == {<<>>, <<<<"-", "}">>>>, <<<<"-", ")">>>>, <<<<"}">>>>, <<<<" ", ")", "x">>>>}

\* what follows the first block
FrAfter ==
    { <<>>,
      <<<<"{", "4", ":">>, FrAccountB, MsgOpeningB, <<"-", "}">>>>,
      <<<<"j", "u", "n", "k">>, <<"(", "4", ":">>, FrAccountB, MsgOpeningB, <<"-", ")">>>>,
      <<<<"{", "4", ":">>, FrAccountB, MsgOpeningB>>,
      <<<<"(", "4", ":">>>>,
      <<<<"x", " ", "(", "4", ":", " ", "{", "4", ":">>, FrAccountB, MsgOpeningB>> }

\* texts without an opener
FrNoOpener ==
    { <<>>, <<<<>>>>, <<MsgAccount, MsgOpeningA>>, <<<<"-", "}">>>>,
      <<<<"4", ":">>, MsgAccount, MsgOpeningA, <<"-", "}">>>>,
      <<<<"{", " ", "4", ":">>, MsgAccount, MsgOpeningA, <<"}">>>>,
      <<<<"{", "4">>, <<":">>, MsgAccount, MsgOpeningA, <<"-", "}">>>> }

\* texts with one block, with "\n" or "\r\n" between the lines and with or
\* without one after the last line
FrEndings ==
    {Join(lines, eol) \o last :
        lines \in FrNoOpener \cup
                  {<<<<"{", "4", ":">>, MsgAccount, MsgOpeningA>> \o closer : closer \in FrClosers},
        eol \in {<<"\n">>, <<"\r", "\n">>}, last \in {<<>>, <<"\n">>}}

FramingInputs ==
    {Join(before \o <<opener, MsgAccount>> \o inner \o <<MsgOpeningA>> \o closer \o after,
          <<"\n">>) :
        before \in FrBefore, opener \in FrOpeners, inner \in FrInner,
        closer \in FrClosers, after \in FrAfter}
    \cup FrEndings

InitFraming ==
    /\ pc = "lines"
    /\ origin \in {Document("framing", text) : text \in FramingInputs}
    /\ doc = Document("framing", BufLines(origin.body))
    /\ res = ParseStart
    /\ first = Err("NotDecoded")
    /\ prev = None
    /\ path = <<>>

\* for line_result in buf_reader.lines() { .. }: one iteration
ReadFramingLine ==
    /\ pc = "lines"
    /\ doc.body # <<>>
    /\ res.err = "none"
    /\ res' = ParseLine(res, Head(doc.body))
    /\ prev' = Some(Head(doc.body))
    /\ doc' = Document("framing", Tail(doc.body))
    /\ UNCHANGED <<pc, first, path, origin>>

\* the `?` of a block that failed, or the end of the input
FinishFraming ==
    /\ pc = "lines"
    /\ doc.body = <<>> \/ res.err # "none"
    /\ first' = ParseEnd(res)
    /\ pc' = "decoded"
    /\ UNCHANGED <<doc, res, prev, path, origin>>

NextFraming ==
    \/ ReadFramingLine
    \/ FinishFraming

SpecFraming == InitFraming /\ [][NextFraming]_vars

(***************************************************************************)
(* Mt940Entry::from_61_line and TryFrom<&Mt940Entry> for Transaction: the   *)
(* value of one :61: line                                                  *)
(***************************************************************************)
\* value dates: years on both sides of 79/80, the 29th of February of a leap
\* year and of another one, a letter in the year, five characters only
EntryValueDates == {<<"2", "3", "0", "1", "0", "1">>, <<"7", "9", "1", "2", "3", "1">>, <<"8", "0", "0", "1", "0", "1">>, <<"9", "9", "1", "2", "3", "0">>, <<"0", "0", "0", "2", "2", "9">>, <<"2", "3", "0", "2", "2", "9">>, <<"2", "X", "0", "1", "0", "1">>, <<"2", "3", "0", "1", "1">>}

\* what follows the value date: nothing, an entry date, one of the year's end, a
\* day that the month does not have, three digits, digits with a blank
EntryDates == {<<>>, <<"0", "1", "0", "2">>, <<"1", "2", "3", "1">>, <<"0", "2", "3", "0">>, <<"0", "1", "2">>, <<"0", "1", " ", "2">>}

EntryMarks == {<<"C">>, <<"D">>, <<"R">>}

\* what follows the mark: nothing, a funds code, a small letter, 'D'
EntryFunds == {<<>>, <<"R">>, <<"r">>, <<"D">>}

EntryAmounts == {<<"1", "0", "0", ",", "0", "0">>, <<"5", ".", "5">>, <<>>, <<",">>}

EntryRests == {<<>>, <<"N", "T", "R", "F", "R", "E", "F", "1", "/", "/", "B", "A", "N", "K", "1", " ", "x">>}

EntryInputs ==
    {vd \o ed \o mark \o funds \o amount \o rest :
        vd \in EntryValueDates, ed \in EntryDates, mark \in EntryMarks,
        funds \in EntryFunds, amount \in EntryAmounts, rest \in EntryRests}

InitEntry ==
    /\ pc = "input"
    /\ doc \in {Document("entry", value) : value \in EntryInputs}
    /\ res = Err("NotDecoded")
    /\ first = Err("NotDecoded")
    /\ prev = None
    /\ path = <<>>
    /\ origin = doc

\* Mt940Entry::from_61_line(value, line_trimmed.to_string())
ReadEntry ==
    /\ pc = "input"
    /\ doc.format = "entry"
    /\ res' = from_61_line(doc.body, <<":", "6", "1", ":">> \o doc.body)
    /\ pc' = "entry"
    /\ UNCHANGED <<doc, first, prev, path, origin>>

\* Transaction::try_from(&entry)
ConvertEntry ==
    /\ pc = "entry"
    /\ res.ok
    /\ first' = TransactionFromMt940Entry(res.val)
    /\ pc' = "decoded"
    /\ UNCHANGED <<doc, res, prev, path, origin>>

NextEntry ==
    \/ ReadEntry
    \/ ConvertEntry

SpecEntry == InitEntry /\ [][NextEntry]_vars

(***************************************************************************)
(* extract_counterparty_from_mt940: the counterparty of an entry           *)
(***************************************************************************)
\* the texts of an entry: blank, words, an IBAN alone, one with a name after it,
\* one in small letters and brackets with a name after it, another one at the end
\* of a line, a token too short for an IBAN
CpTexts ==
    {<<>>, <<"r", "e", "n", "t">>, <<"D", "E", "1", "2", "A", "B", "C", "D", "E", "F", "G", "H", "I", "J", "K">>, <<"D", "E", "1", "2", "A", "B", "C", "D", "E", "F", "G", "H", "I", "J", "K", " ", "J", "o", "h", "n", " ", " ", "D", "o", "e">>,
     <<"t", "o", " ", "(", "d", "e", "1", "2", "a", "b", "c", "d", "e", "f", "g", "h", "i", "j", "k", ")", ",", " ", "J", "a", "n", "e">>, <<"p", "a", "y", " ", "F", "R", "1", "2", "A", "B", "C", "D", "E", "F", "G", "H", "I", "J", "K">>, <<"D", "E", "1", "2", "A", "B", "C">>}

\* the most texts of an entry
MaxInfo == 3

\* what follows the amount in the :61: value: nothing, or a customer reference
\* and a bank reference, each with or without an IBAN
CpCustomerRefs == {<<"R", "E", "F", "1">>, <<"N", "L", "1", "2", "A", "B", "C", "D", "E", "F", "G", "H", "I", "J", "K">>, <<"N", "L", "1", "2", "A", "B", "C", "D", "E", "F", "G", "H", "I", "J", "K", " ", "B", "o", "b">>}

CpBankRefs == {<<"B", "A", "N", "K", "1">>, <<"G", "B", "1", "2", "A", "B", "C", "D", "E", "F", "G", "H", "I", "J", "K">>}

CpRests == {<<>>} \cup {cref \o <<"/", "/">> \o bref : cref \in CpCustomerRefs, bref \in CpBankRefs}

CounterpartyInputs ==
    {<<<<":", "6", "1", ":", "2", "3", "0", "1", "0", "3", "D", "5", ",", "0", "0">> \o rest>> \o texts :
        rest \in CpRests, texts \in SeqsOf(CpTexts, 0, MaxInfo)}

InitCounterparty ==
    /\ pc = "input"
    /\ doc \in {Document("counterparty", lines) : lines \in CounterpartyInputs}
    /\ res = Err("NotDecoded")
    /\ first = Err("NotDecoded")
    /\ prev = None
    /\ path = <<>>
    /\ origin = doc

\* the :61: line and the lines of text after it, as the loop over the lines of a
\* message reads them into an entry
ReadCounterpartyEntry ==
    /\ pc = "input"
    /\ doc.format = "counterparty"
    /\ res' = MessageLoop(MessageStart, doc.body).current_entry[1]
    /\ pc' = "entry"
    /\ UNCHANGED <<doc, first, prev, path, origin>>

\* extract_counterparty_from_mt940(entry)
ExtractCounterparty ==
    /\ pc = "entry"
    /\ doc.format = "counterparty"
    /\ first' = extract_counterparty_from_mt940(res)
    /\ pc' = "decoded"
    /\ UNCHANGED <<doc, res, prev, path, origin>>

NextCounterparty ==
    \/ ReadCounterpartyEntry
    \/ ExtractCounterparty

SpecCounterparty == InitCounterparty /\ [][NextCounterparty]_vars

(***************************************************************************)
(* The amount cells of a CSV record: CsvRecord::into_transaction for a     *)
(* record of the table, parse_footer_balance for a record of the footer    *)
(***************************************************************************)
\* what an amount cell holds: nothing, a blank, zero in five notations, amounts,
\* a letter, a negative amount
CellTexts ==
    {<<>>, <<" ">>, <<"0">>, <<"0", ",", "0", "0">>, <<"0", ".", "0", "0">>, <<"0", ".", "0">>, <<"0", "0">>, <<"1", "0", "0">>, <<" ", "1", " ", "2", "3", "4", ",", "5", "6">>, <<"x">>, <<"-", "5">>}

\* the date cell of a record of the table: a date, and the 31st of February
CellDates == {<<"0", "6", ".", "0", "1", ".", "2", "0", "2", "3">>, <<"3", "1", ".", "0", "2", ".", "2", "0", "2", "3">>}

\* records of the table in the layout of the bank (the debit amount in cell 9, the
\* credit amount in cell 13), and records of the footer (cells 7 and 11)
CellInputs ==
    {Document("datarow", Row(<<<<1, date>>, <<4, CsvAccount>>, <<9, debit>>, <<13, credit>>>>)) :
        date \in CellDates, debit \in CellTexts, credit \in CellTexts}
    \cup {Document("footerrow", Row(<<<<1, <<"Vkhodyashchiy ostatok">>>>, <<7, debit>>,
                                      <<11, credit>>>>)) :
            debit \in CellTexts, credit \in CellTexts}

InitCsvCells ==
    /\ pc = "input"
    /\ doc \in CellInputs
    /\ res = Err("NotDecoded")
    /\ first = Err("NotDecoded")
    /\ prev = None
    /\ path = <<>>
    /\ origin = doc

\* CsvRecord::from_string_record(&row, &layout).into_transaction(&account)
ReadCsvDataRow ==
    /\ pc = "input"
    /\ doc.format = "datarow"
    /\ res' = into_transaction(
                  CsvRecord_from_string_record(
                      doc.body,
                      TableLayout_from_string_records(CsvTableHeaders[1],
                                                      CsvTableHeaders[2]).val),
                  CsvAccount)
    /\ pc' = "decoded"
    /\ UNCHANGED <<doc, first, prev, path, origin>>

\* parse_footer_balance(&row)
ReadCsvFooterRow ==
    /\ pc = "input"
    /\ doc.format = "footerrow"
    /\ res' = parse_footer_balance(doc.body)
    /\ pc' = "decoded"
    /\ UNCHANGED <<doc, first, prev, path, origin>>

NextCsvCells ==
    \/ ReadCsvDataRow
    \/ ReadCsvFooterRow

SpecCsvCells == InitCsvCells /\ [][NextCsvCells]_vars

(***************************************************************************)
(* The sections of a CSV file: the loop of CsvData::parse, one action for  *)
(* each pass of the loop, over files whose rows come in any order.  The    *)
(* rows of a file are of one length, as the reader requires.               *)
(***************************************************************************)
\* the rows above the table, and none at all
SectionHeads ==
    {<<>>,
     SubSeq(CsvDoc(CHOOSE n \in CsvNames : n # <<>>, CHOOSE c \in CsvCurrencies : Len(c) = 1,
                   CHOOSE p \in CsvPeriods : Len(p[1]) > 8, <<>>, <<>>), 1, 9)}

\* the row with the label, the row under it, an operation, an empty row and the
\* b/s record of the footer
SectionRows ==
    {CsvTableHeaders[1], CsvTableHeaders[2],
     Row(<<<<1, <<"0", "6", ".", "0", "1", ".", "2", "0", "2", "3">>>>, <<4, CsvAccount>>, <<9, <<"7">>>>>>),
     empty_row,
     Row(<<<<1, <<"b/s">>>>, <<3, CsvAccount>>>>)}

\* up to three rows in any order, and three rows in any order under a table header
SectionBodies ==
    {<<>>} \cup {<<a>> : a \in SectionRows}
    \cup {<<a, b>> : a \in SectionRows, b \in SectionRows}
    \cup {<<a, b, c>> : a \in SectionRows, b \in SectionRows, c \in SectionRows}
    \cup {<<CsvTableHeaders[1], CsvTableHeaders[2], a, b, c>> :
             a \in SectionRows, b \in SectionRows, c \in SectionRows}

\* the two balances, and nothing
SectionTails == {<<>>, CHOOSE f \in CsvFooters : Len(f) = 2}

SectionInputs ==
    {Document("rows", head \o body \o tail) :
        head \in SectionHeads, body \in SectionBodies, tail \in SectionTails}

\* first holds the variables of the loop, doc the records not yet read
InitCsvSections ==
    /\ pc = "input"
    /\ origin \in SectionInputs
    /\ doc = origin
    /\ first = [header_rows |-> <<>>, data_rows |-> <<>>, footer_rows |-> <<>>,
                in_data_section |-> FALSE, headers_row |-> None, subheaders_row |-> None]
    /\ res = Err("NotDecoded")
    /\ prev = None
    /\ path = <<>>

\* ReadCsvRecord with the footer ending at its first row
ReadCsvRecord_one_footer_row ==
    /\ pc = "input"
    /\ doc.body # <<>>
    /\ first.footer_rows = <<>>
    /\ LET record == Head(doc.body)
           rest == Tail(doc.body)
       IN IF ~first.in_data_section
          THEN IF \E j \in 1..Len(record) : Contains(record[j], <<"Data provodki">>)
               THEN IF rest # <<>>
                    THEN /\ first' = [first EXCEPT !.headers_row = Some(record),
                                                   !.subheaders_row = Some(Head(rest)),
                                                   !.in_data_section = TRUE]
                         /\ doc' = [doc EXCEPT !.body = Tail(rest)]
                         /\ UNCHANGED <<pc, res>>
                    ELSE /\ first' = [first EXCEPT !.headers_row = Some(record)]
                         /\ doc' = [doc EXCEPT !.body = rest]
                         /\ pc' = "decoded"
                         /\ res' = Err("Header")
               ELSE /\ first' = [first EXCEPT !.header_rows = Append(@, record)]
                    /\ doc' = [doc EXCEPT !.body = rest]
                    /\ UNCHANGED <<pc, res>>
          ELSE IF is_footer_row(record)
               THEN /\ first' = [first EXCEPT !.footer_rows = <<record>>]
                    /\ doc' = [doc EXCEPT !.body = rest]
                    /\ UNCHANGED <<pc, res>>
               ELSE /\ first' = [first EXCEPT !.data_rows = Append(@, record)]
                    /\ doc' = [doc EXCEPT !.body = rest]
                    /\ UNCHANGED <<pc, res>>
    /\ UNCHANGED <<prev, path, origin>>

\* one pass of the loop over the records
ReadCsvRecord ==
    /\ pc = "input"
    /\ doc.body # <<>>
    /\ first.footer_rows = <<>>
    /\ LET record == Head(doc.body)
           rest == Tail(doc.body)
       IN IF ~first.in_data_section
          THEN IF \E j \in 1..Len(record) : Contains(record[j], <<"Data provodki">>)
               THEN IF rest # <<>>
                    THEN /\ first' = [first EXCEPT !.headers_row = Some(record),
                                                   !.subheaders_row = Some(Head(rest)),
                                                   !.in_data_section = TRUE]
                         /\ doc' = [doc EXCEPT !.body = Tail(rest)]
                         /\ UNCHANGED <<pc, res>>
                    ELSE /\ first' = [first EXCEPT !.headers_row = Some(record)]
                         /\ doc' = [doc EXCEPT !.body = rest]
                         /\ pc' = "decoded"
                         /\ res' = Err("Header")
               ELSE /\ first' = [first EXCEPT !.header_rows = Append(@, record)]
                    /\ doc' = [doc EXCEPT !.body = rest]
                    /\ UNCHANGED <<pc, res>>
          ELSE IF is_footer_row(record)
               THEN /\ first' = [first EXCEPT !.footer_rows = doc.body]
                    /\ doc' = [doc EXCEPT !.body = <<>>]
                    /\ UNCHANGED <<pc, res>>
               ELSE /\ first' = [first EXCEPT !.data_rows = Append(@, record)]
                    /\ doc' = [doc EXCEPT !.body = rest]
                    /\ UNCHANGED <<pc, res>>
    /\ UNCHANGED <<prev, path, origin>>

\* after the loop: the three parts are built from the rows of their sections
FinishCsvRecords ==
    /\ pc = "input"
    /\ doc.body = <<>> \/ first.footer_rows # <<>>
    /\ res' = IF ~IsSome(first.headers_row) THEN Err("Header")
              ELSE IF ~IsSome(first.subheaders_row) THEN Err("Header")
              ELSE IF first.footer_rows = <<>> THEN Err("Header")
              ELSE CsvParts(first.header_rows \o first.headers_row \o first.subheaders_row
                                \o first.data_rows \o first.footer_rows,
                            Len(first.header_rows) + 1,
                            Len(first.header_rows) + Len(first.data_rows) + 3)
    /\ pc' = "decoded"
    /\ UNCHANGED <<doc, first, prev, path, origin>>

NextCsvSections ==
    \/ ReadCsvRecord
    \/ FinishCsvRecords

SpecCsvSections == InitCsvSections /\ [][NextCsvSections]_vars

(***************************************************************************)
(* The currency and the period of a camt.053 statement: the conversion of  *)
(* a Camt053Statement into a Statement, over statements whose account,     *)
(* balances and entries name different currencies and whose entries are    *)
(* booked on different days, in any order.                                 *)
(***************************************************************************)
\* the currency of the account: none, EUR, usd, and one of no letters
FieldAccounts ==
    {[id |-> [iban |-> Some(Iban)], name |-> None, currency |-> c] :
        c \in {None, Some(<<"E", "U", "R">>), Some(<<"u", "s", "d">>), Some(<<>>)}}

\* no balance; one in USD; one in CNY before one in USD
FieldBalances ==
    {<<>>,
     <<[CamtBalance(Some(<<"O", "P", "B", "D">>), <<"1", ".", "0", "0">>, Some(CRDT)) EXCEPT !.amount.currency = <<"U", "S", "D">>]>>,
     <<[CamtBalance(Some(<<"O", "P", "B", "D">>), <<"1", ".", "0", "0">>, Some(CRDT)) EXCEPT !.amount.currency = <<"C", "N", "Y">>],
       [CamtBalance(Some(<<"C", "L", "B", "D">>), <<"2", ".", "0", "0">>, Some(CRDT)) EXCEPT !.amount.currency = <<"U", "S", "D">>]>>}

\* entries in RUB booked on the 5th of January 2023 and, with a time of day, on the
\* 29th of February 2024; one in GBP booked on the 3rd of January 2023; one booked
\* in a 13th month
FieldEntries ==
    {[CamtEntry(<<"1", ".", "0", "0">>, CRDT, <<"2", "0", "2", "3", "-", "0", "1", "-", "0", "5">>, Some([date |-> <<"2", "0", "2", "3", "-", "0", "1", "-", "0", "5">>]), None)
         EXCEPT !.Amt.currency = <<"R", "U", "B">>],
     [CamtEntry(<<"2", ".", "0", "0">>, DBIT, <<"2", "0", "2", "4", "-", "0", "2", "-", "2", "9", "T", "1", "0", ":", "0", "0", ":", "0", "0">>, Some([date |-> <<"2", "0", "2", "4", "-", "0", "2", "-", "2", "9">>]), None)
         EXCEPT !.Amt.currency = <<"R", "U", "B">>],
     [CamtEntry(<<"3", ".", "0", "0">>, DBIT, <<"2", "0", "2", "3", "-", "0", "1", "-", "0", "3">>, Some([date |-> <<"2", "0", "2", "3", "-", "0", "1", "-", "0", "3">>]), None)
         EXCEPT !.Amt.currency = <<"G", "B", "P">>],
     CamtEntry(<<"4", ".", "0", "0">>, CRDT, <<"2", "0", "2", "3", "-", "1", "3", "-", "0", "8">>, Some([date |-> <<"2", "0", "2", "3", "-", "0", "1", "-", "0", "8">>]), None)}

\* <FrToDt>: missing; with both dates, the end before the start; with one of them;
\* with none; with an end that is no date
FieldPeriods ==
    {None,
     Some([from |-> Some(<<"2", "0", "2", "3", "-", "0", "2", "-", "0", "1">>), to |-> Some(<<"2", "0", "2", "3", "-", "0", "1", "-", "3", "1", "T", "2", "3", ":", "5", "9", ":", "5", "9">>)]),
     Some([from |-> Some(<<"2", "0", "2", "3", "-", "0", "2", "-", "0", "1">>), to |-> None]),
     Some([from |-> None, to |-> Some(<<"2", "0", "2", "3", "-", "0", "1", "-", "3", "1">>)]),
     Some([from |-> None, to |-> None]),
     Some([from |-> Some(<<"2", "0", "2", "3", "-", "0", "2", "-", "0", "1">>), to |-> Some(<<"2", "0", "2", "3", "-", "0", "2", "-", "3", "0">>)])}

FieldInputs ==
    {Document("stmt", DeserializeStatement(CamtStmt(Some(acct), period, bals, entries)).val) :
        acct \in FieldAccounts, period \in FieldPeriods, bals \in FieldBalances,
        entries \in {<<>>} \cup {<<a>> : a \in FieldEntries}
                    \cup {<<a, b>> : a \in FieldEntries, b \in FieldEntries}}

InitCamtFields ==
    /\ pc = "input"
    /\ doc \in FieldInputs
    /\ res = Err("NotDecoded")
    /\ first = Err("NotDecoded")
    /\ prev = None
    /\ path = <<>>
    /\ origin = doc

\* Statement::try_from(Camt053Statement)
ConvertCamtStatement ==
    /\ pc = "input"
    /\ res' = StatementFromCamt053Statement(doc.body)
    /\ pc' = "decoded"
    /\ UNCHANGED <<doc, first, prev, path, origin>>

SpecCamtFields == InitCamtFields /\ [][ConvertCamtStatement]_vars

(***************************************************************************)
(* The values of :60F: and :61: with a character of two bytes: a text is   *)
(* sliced at offsets counted in bytes, and a slice that ends inside a      *)
(* character panics.  The character stands right before each offset at     *)
(* which parse_balance and from_61_line slice, and after all of them.      *)
(***************************************************************************)
\* a character that UTF-8 writes in two bytes
TwoByteChar == "e-acute"

RECURSIVE ByteLen(_)
\* str::len
ByteLen(s) == IF s = <<>> THEN 0 ELSE (IF Head(s) = TwoByteChar THEN 2 ELSE 1) + ByteLen(Tail(s))

\* str::is_char_boundary
IsCharBoundary(s, n) == \E k \in 0..Len(s) : ByteLen(SubSeq(s, 1, k)) = n

\* the text with the character put in before place p
WithTwoByteChar(s, p) == SubSeq(s, 1, p - 1) \o <<TwoByteChar>> \o SubSeq(s, p, Len(s))

SliceBalances == {<<"C", "2", "3", "0", "1", "0", "1", "E", "U", "R", "1", ",", "0", "0">>, <<"D", "2", "2", "1", "2", "3", "1", "U", "S", "D", "0", ",", "5">>, <<"C", "2", "3", "0", "1", "0", "1", "E", "U">>, <<"C", "2", "3", "0", "1", "0">>}

SliceEntries ==
    {<<"2", "3", "0", "1", "0", "1", "C", "1", ",", "0", "0">>, <<"2", "3", "0", "1", "0", "1", "0", "1", "0", "2", "D", "5", ",", "5", "N", "T", "R", "F", "R", "E", "F", "/", "/", "B", "A", "N", "K">>, <<"2", "3", "0", "1", "0", "1", "R", "C", "7", ",", "0", "0", "N", "T", "R">>, <<"2", "3", "0", "1", "0", "1", "D", "1", "N", "T", "R", "F", "X">>, <<"2", "3", "0", "1", "C", "1">>}

\* the places the character is put in: before an offset of a slice, and in the amount
\* or the references
SlicePlaces(tag, v) ==
    {p \in (IF tag = "60F" THEN {1, 7, 10} \cup 11..15 ELSE 6..28) : p <= Len(v) + 1}

SliceInputs ==
    {Document("60F", v) : v \in SliceBalances}
    \cup UNION {{Document("60F", WithTwoByteChar(v, p)) : p \in SlicePlaces("60F", v)} :
                v \in SliceBalances}
    \cup {Document("61", v) : v \in SliceEntries}
    \cup UNION {{Document("61", WithTwoByteChar(v, p)) : p \in SlicePlaces("61", v)} :
                v \in SliceEntries}

InitSlices ==
    /\ pc = "input"
    /\ doc \in SliceInputs
    /\ res = Err("NotDecoded")
    /\ first = Err("NotDecoded")
    /\ prev = None
    /\ path = <<>>
    /\ origin = doc

\* parse_balance: value[1..], rest[0..6], rest[6..9] and rest[9..] once the value
\* has 11 bytes
ReadBalanceValue ==
    /\ pc = "input"
    /\ doc.format = "60F"
    /\ LET value == Trim(doc.body)
       IN IF /\ ByteLen(value) >= 11
             /\ \E n \in {1, 7, 10} : ~IsCharBoundary(value, n)
          THEN pc' = "panicked" /\ UNCHANGED res
          ELSE pc' = "decoded" /\ res' = parse_balance(doc.body)
    /\ UNCHANGED <<doc, first, prev, path, origin>>

\* from_61_line: value[0..6] once the value has 8 bytes, value[6..10] once it has
\* 10, and rest[..4] once the rest after the amount has 4
ReadEntryValue ==
    /\ pc = "input"
    /\ doc.format = "61"
    /\ LET value == Trim(doc.body)
           has_entry_date == Len(value) >= 10 /\ AllDigits(SubSeq(value, 7, 10))
           dca == parse_dc_and_amount(From(value, IF has_entry_date THEN 10 ELSE 6))
       IN IF /\ ByteLen(value) >= 8
             /\ \/ ~IsCharBoundary(value, 6)
                \/ ByteLen(value) >= 10 /\ ~IsCharBoundary(value, 10)
                \/ /\ dca.ok
                   /\ ByteLen(dca.val.rest) >= 4
                   /\ ~IsCharBoundary(dca.val.rest, 4)
          THEN pc' = "panicked" /\ UNCHANGED res
          ELSE pc' = "decoded" /\ res' = from_61_line(doc.body, <<>>)
    /\ UNCHANGED <<doc, first, prev, path, origin>>

NextSlices ==
    \/ ReadBalanceValue
    \/ ReadEntryValue

SpecSlices == InitSlices /\ [][NextSlices]_vars

(***************************************************************************)
(* Properties.                                                             *)
(*                                                                         *)
(* After a decode, res is the outcome for doc; when doc was written by an  *)
(* encoder, prev holds the Statement it was written from, and first holds  *)
(* the outcome of decoding origin, the document the run started with.      *)
(***************************************************************************)
Decoded == pc = "decoded"

\* doc was written in format f from a Statement that was itself decoded from format f
RoundTrip(f) ==
    /\ Decoded
    /\ Len(path) >= 2
    /\ path[Len(path)] = f
    /\ path[Len(path) - 1] = f

\* account id, currency, both balances, period and number of transactions
SameHeader(a, b) ==
    /\ a.account_id = b.account_id
    /\ a.currency = b.currency
    /\ a.opening_balance = b.opening_balance
    /\ a.closing_balance = b.closing_balance
    /\ a.period_from = b.period_from
    /\ a.period_until = b.period_until
    /\ Len(a.transactions) = Len(b.transactions)

SameMovement(a, b) ==
    /\ a.booking_date = b.booking_date
    /\ a.amount = b.amount
    /\ a.direction = b.direction

\* normalize_name of the CSV round trip test: an absent, empty or "-" name is absent
normalize_name(name) ==
    IF ~IsSome(name) THEN None
    ELSE IF Trim(name[1]) \in {<<>>, <<"-">>} THEN None
    ELSE Some(Trim(name[1]))

\* the lines of an MT940 text up to the line that closes the first block
FirstBlockEnd(lines) ==
    LET closing == {i \in 1..Len(lines) :
                        \E k \in BlockKinds : StartsWith(Trim(lines[i]), Closer(k))}
    IN IF closing = {} THEN Len(lines)
       ELSE CHOOSE i \in closing : \A j \in closing : i <= j

\* the document cut down to its first statement
FirstStatementOnly(d) ==
    IF d.format = "mt940"
    THEN LET lines == BufLines(d.body)
         IN Document("mt940", TextOfLines(SubSeq(lines, 1, FirstBlockEnd(lines))))
    ELSE IF d.format = "camt053"
    THEN Document("camt053", [d.body EXCEPT !.stmts = SubSeq(@, 1, 1)])
    ELSE d

\* the document holds a statement after the first one
HasLaterStatements(d) ==
    IF d.format = "mt940"
    THEN LET lines == BufLines(d.body)
         IN \E i \in (FirstBlockEnd(lines) + 1)..Len(lines) :
                \E k \in BlockKinds : Contains(lines[i], Opener(k))
    ELSE IF d.format = "camt053" THEN Len(d.body.stmts) > 1
    ELSE FALSE

Decode(d) ==
    IF d.format = "mt940" THEN DecodeMt940Text(d.body)
    ELSE IF d.format = "csv" THEN DecodeCsvRows(d.body)
    ELSE DecodeCamt053Xml(d.body)

\* C1: when the input holds more than one statement and its first statement alone
\* decodes, the decode of the whole input succeeds with the data of the first statement
C1_LaterStatementsDropped ==
    (Decoded /\ Len(path) = 1 /\ HasLaterStatements(origin)
             /\ Decode(FirstStatementOnly(origin)).ok)
        => res = Decode(FirstStatementOnly(origin))

OpeningOrClosing == {Some(<<"O", "P", "B", "D">>), Some(<<"C", "L", "B", "D">>)}

\* the first <Stmt> holds an OPBD or CLBD balance whose amount or indicator does not parse
HasMalformedBalance(xml) ==
    /\ xml.stmts # <<>>
    /\ \E i \in 1..Len(xml.stmts[1].Bal) :
           LET bal == xml.stmts[1].Bal[i]
           IN /\ bal.balance_type.code_or_proprietary.code \in OpeningOrClosing
              /\ ~balance_from_camt(bal).ok

\* C2: a camt.053 document whose opening or closing balance cannot be parsed fails to
\* decode; no Statement is produced from it
C2_MalformedBalanceFailsDecode ==
    (Decoded /\ path = <<"camt053">> /\ HasMalformedBalance(origin.body)) => ~res.ok

\* C3: what an encoder wrote from a decoded Statement is accepted by the decoder of the
\* format it was written in
C3_EncoderOutputReimportable ==
    (Decoded /\ Len(path) >= 2) => res.ok

\* C4: decoding what write_mt940 wrote from a Statement decoded from MT940, in one of
\* the four known currencies, succeeds and gives the same account id, currency,
\* balances, period and number of transactions, and per transaction the same booking
\* date, value date, amount and direction
C4_Mt940RoundTripCore ==
    (RoundTrip("mt940") /\ prev[1].currency.tag \in KnownCurrencies)
        => /\ res.ok
           /\ SameHeader(prev[1], res.val)
           /\ \A i \in 1..Len(prev[1].transactions) :
                  /\ SameMovement(prev[1].transactions[i], res.val.transactions[i])
                  /\ res.val.transactions[i].value_date = prev[1].transactions[i].value_date

\* a round trip of a statement with several transactions, a closing balance and a
\* transaction valued on another day than it was booked
C4_Witness ==
    /\ RoundTrip("mt940")
    /\ res.ok
    /\ prev[1].currency.tag \in KnownCurrencies
    /\ IsSome(prev[1].closing_balance)
    /\ Len(prev[1].transactions) >= 2
    /\ \E i \in 1..Len(prev[1].transactions) :
           prev[1].transactions[i].value_date # Some(prev[1].transactions[i].booking_date)

\* C5, as stated: after the MT940 round trip every transaction has the description it
\* had before
C5_Mt940RoundTripDescriptionEqual ==
    RoundTrip("mt940")
        => /\ res.ok
           /\ Len(res.val.transactions) = Len(prev[1].transactions)
           /\ \A i \in 1..Len(prev[1].transactions) :
                  res.val.transactions[i].description = prev[1].transactions[i].description

\* C5, amended: after the MT940 round trip every transaction's description contains the
\* trimmed description it had before, and is that description when the transaction has
\* neither a counterparty id nor a counterparty name and its description is not blank
C5_Mt940RoundTripDescriptionKept ==
    RoundTrip("mt940")
        => /\ res.ok
           /\ Len(res.val.transactions) = Len(prev[1].transactions)
           /\ \A i \in 1..Len(prev[1].transactions) :
                  LET a == prev[1].transactions[i]
                      b == res.val.transactions[i]
                  IN /\ Contains(b.description, Trim(a.description))
                     /\ (/\ ~IsSome(a.counterparty)
                         /\ ~IsSome(a.counterparty_name)
                         /\ ~IsBlank(a.description))
                            => b.description = Trim(a.description)

\* a round trip in which a transaction with a counterparty comes back with a longer
\* description and one without a counterparty comes back with its description
C5_Witness ==
    /\ RoundTrip("mt940")
    /\ res.ok
    /\ Len(res.val.transactions) = Len(prev[1].transactions)
    /\ \E i \in 1..Len(prev[1].transactions) :
           /\ IsSome(prev[1].transactions[i].counterparty)
           /\ res.val.transactions[i].description # prev[1].transactions[i].description
    /\ \E i \in 1..Len(prev[1].transactions) :
           /\ ~IsSome(prev[1].transactions[i].counterparty)
           /\ ~IsBlank(prev[1].transactions[i].description)
           /\ res.val.transactions[i].description = prev[1].transactions[i].description

\* C6: after the MT940 round trip a transaction that had a counterparty id has the same
\* id, and one that had a counterparty name has the same name
C6_Mt940RoundTripCounterparty ==
    (RoundTrip("mt940") /\ res.ok /\ Len(res.val.transactions) = Len(prev[1].transactions))
        => \A i \in 1..Len(prev[1].transactions) :
               LET a == prev[1].transactions[i]
                   b == res.val.transactions[i]
               IN /\ IsSome(a.counterparty) => b.counterparty = a.counterparty
                  /\ IsSome(a.counterparty_name) => b.counterparty_name = a.counterparty_name

WellFormedCamt053(xml) ==
    /\ xml.stmts # <<>>
    /\ \A code \in OpeningOrClosing :
           \E i \in 1..Len(xml.stmts[1].Bal) :
               xml.stmts[1].Bal[i].balance_type.code_or_proprietary.code = code
    /\ \A i \in 1..Len(xml.stmts[1].Bal) :
           xml.stmts[1].Bal[i].cdt_dbt_ind \in {Some(CRDT), Some(DBIT)}

CameFromCamt053 ==
    /\ Decoded
    /\ path # <<>>
    /\ path[1] = "camt053"
    /\ first.ok

\* C9: from a Statement decoded from a well-formed camt.053 document in a known
\* currency, the CSV written from it decodes, and the MT940 written from that decodes to
\* a Statement with the same account id, currency, balances, period and number of
\* transactions and per transaction the same booking date, amount and direction
C9_CrossFormatRoundTrip ==
    (CameFromCamt053 /\ WellFormedCamt053(origin.body)
                     /\ first.val.currency.tag \in KnownCurrencies)
        => /\ path = <<"camt053", "csv">> => res.ok
           /\ path = <<"camt053", "csv", "mt940">>
                  => /\ res.ok
                     /\ SameHeader(first.val, res.val)
                     /\ \A i \in 1..Len(first.val.transactions) :
                            SameMovement(first.val.transactions[i], res.val.transactions[i])

\* C10: when the chain camt.053, CSV, MT940 has run through, every transaction has the
\* value date it had in the Statement decoded from the camt.053 document
C10_CrossFormatValueDate ==
    (CameFromCamt053 /\ path = <<"camt053", "csv", "mt940">> /\ res.ok
                     /\ Len(res.val.transactions) = Len(first.val.transactions))
        => \A i \in 1..Len(first.val.transactions) :
               res.val.transactions[i].value_date = first.val.transactions[i].value_date

(***************************************************************************)
(* Signs                                                                   *)
(***************************************************************************)
\* the sign a balance has to have under the mark its source gives it
SignFits(balance, side) ==
    IF side = "Credit" THEN balance >= 0
    ELSE IF side = "Debit" THEN balance <= 0
    ELSE FALSE

\* the side that the mark of an MT940 balance or entry names
Mt940Side(dc_mark) ==
    IF dc_mark = "C" THEN "Credit" ELSE IF dc_mark = "D" THEN "Debit" ELSE "Other"

\* the side of the last camt.053 balance with the given code, None without one
RECURSIVE CamtSide(_, _, _)
CamtSide(balances, code, side) ==
    IF balances = <<>> THEN side
    ELSE CamtSide(Tail(balances), code,
                  IF Head(balances).balance_type.code_or_proprietary.code # Some(code)
                  THEN side
                  ELSE IF Head(balances).cdt_dbt_ind = Some(CRDT) THEN Some("Credit")
                  ELSE IF Head(balances).cdt_dbt_ind = Some(DBIT) THEN Some("Debit")
                  ELSE Some("Other"))

\* the side of the last CSV footer record with the given title: the filled column
RECURSIVE CsvSide(_, _, _)
CsvSide(rows, title, side) ==
    IF rows = <<>> THEN side
    ELSE CsvSide(Tail(rows), title,
                 IF GetTrim(Head(rows), 1) # <<title>> THEN side
                 ELSE IF ~IsZeroText(GetTrim(Head(rows), 7)) THEN Some("Debit")
                 ELSE Some("Credit"))

\* <<opening, closing>>: the sides the source document gives the two balances
SourceSides(d) ==
    IF d.format = "mt940"
    THEN Bind(Mt940Data_parse(d.body), LAMBDA data :
             <<Some(Mt940Side(data.val.opening_balance.dc_mark)),
               IF IsSome(data.val.closing_balance)
               THEN Some(Mt940Side(data.val.closing_balance[1].dc_mark)) ELSE None>>)
    ELSE IF d.format = "csv"
    THEN <<CsvSide(d.body, "Vkhodyashchiy ostatok", None),
           CsvSide(d.body, "Iskhodyashchiy ostatok", None)>>
    ELSE Bind(Camt053Data_parse(d.body), LAMBDA data :
             <<CamtSide(data.val.statement.balances, <<"O", "P", "B", "D">>, None),
               CamtSide(data.val.statement.balances, <<"C", "L", "B", "D">>, None)>>)

\* an MT940 file whose first message carries a mark other than C and D
HasOtherMark(d) ==
    /\ d.format = "mt940"
    /\ Bind(Mt940Data_parse(d.body), LAMBDA data :
           /\ data.ok
           /\ \/ Mt940Side(data.val.opening_balance.dc_mark) = "Other"
              \/ /\ IsSome(data.val.closing_balance)
                 /\ Mt940Side(data.val.closing_balance[1].dc_mark) = "Other"
              \/ \E i \in 1..Len(data.val.entries) :
                    Mt940Side(data.val.entries[i].dc_mark) = "Other")

\* each balance that the Statement holds has the sign of its side
BalancesFit(st, sides) ==
    /\ IsSome(st.opening_balance) => SignFits(st.opening_balance[1], sides[1][1])
    /\ IsSome(st.closing_balance) => SignFits(st.closing_balance[1], sides[2][1])

\* C11: after a successful decode every amount is non-negative and has a direction,
\* every balance has the sign of the mark of its source, and an MT940 file with a
\* mark other than C and D is not decoded
C11_SignInvariant ==
    Decoded =>
        /\ res.ok =>
              /\ \A i \in 1..Len(res.val.transactions) :
                    /\ res.val.transactions[i].amount >= 0
                    /\ res.val.transactions[i].direction \in {"Debit", "Credit"}
              /\ BalancesFit(res.val, SourceSides(doc))
        /\ HasOtherMark(doc) => ~res.ok

\* a file with a debit balance and a debit entry is decoded
C11_Witness ==
    /\ Decoded
    /\ res.ok
    /\ path = <<doc.format>>
    /\ IsSome(res.val.opening_balance)
    /\ res.val.opening_balance[1] < 0
    /\ SourceSides(doc)[1] = Some("Debit")
    /\ \E i \in 1..Len(res.val.transactions) : res.val.transactions[i].direction = "Debit"

(***************************************************************************)
(* Period                                                                  *)
(***************************************************************************)
\* C12: after a successful decode of any format the period of the Statement
\* does not end before it starts
C12_PeriodOrdered ==
    (Decoded /\ res.ok) => DateOrd(res.val.period_from) <= DateOrd(res.val.period_until)

(***************************************************************************)
(* Amounts                                                                 *)
(***************************************************************************)
\* the text without the blanks around it and the spaces in it, its commas dropped
\* when a point occurs and made points when none does
AmountCleaned(raw) ==
    IF Contains(raw, <<",">>) /\ Contains(raw, <<".">>)
    THEN Replace(Replace(Trim(raw), " ", <<>>), ",", <<>>)
    ELSE Replace(Replace(Trim(raw), " ", <<>>), ",", <<".">>)

\* one or more digits
IsDigits(s) == s # <<>> /\ AllDigits(s)

\* the value of a fraction of no, one or two digits, in hundredths
FractionValue(s) ==
    IF s = <<>> THEN 0 ELSE IF Len(s) = 1 THEN DigitVal(s[1]) * 10 ELSE DigitsValue(s)

\* what the description of parse_amount gives for the pieces of a cleaned text
AmountAsDescribed(res_, cleaned, pieces) ==
    LET int_text == pieces[1]
        frac_text == IF Len(pieces) >= 2 THEN pieces[2] ELSE <<>>
        digits_only == /\ Len(pieces) <= 2
                       /\ IsDigits(int_text)
                       /\ Len(frac_text) <= 2
                       /\ AllDigits(frac_text)
    IN /\ cleaned = <<>> => res_ = Err("InvalidAmount")
       /\ (cleaned # <<>> /\ Head(cleaned) = "-") => res_ = Err("InvalidAmount")
       /\ Len(pieces) >= 3 => res_ = Err("InvalidAmount")
       /\ (cleaned # <<>> /\ Head(cleaned) # "-" /\ Len(pieces) <= 2 /\ ~IsDigits(int_text))
             => res_ = Err("Int")
       /\ (Len(pieces) = 2 /\ IsDigits(int_text) /\ Len(frac_text) > 2)
             => res_ = Err("InvalidAmount")
       /\ res_.ok <=> digits_only
       /\ digits_only => res_.val = DigitsValue(int_text) * 100 + FractionValue(frac_text)

\* C13: parse_amount strips spaces, reads the comma as described, gives the integer
\* part times 100 plus the fraction, fails with InvalidAmount on blank text, a leading
\* minus, a second decimal point and a third fractional digit, with an integer-parse
\* error on an integer part that is not digits, and succeeds on nothing but digits
\* with an optional fraction
C13_ParseAmountAsDescribed ==
    (Decoded /\ doc.format = "amount") =>
        AmountAsDescribed(res, AmountCleaned(doc.body), SplitChar(AmountCleaned(doc.body), "."))

\* C14: the text that format_minor_units gives for a value, with either separator,
\* is parsed back to that value, so that parsing, formatting and parsing again gives
\* what the first parsing gave; "1,234.56" and "1 234,56" both give 123456
C14_AmountIdempotent ==
    (Decoded /\ doc.format = "amount") =>
        /\ IsSome(prev) => res = Ok(prev[1])
        /\ (first.ok /\ Len(path) >= 2) => res = first
        /\ doc.body \in {<<"1", ",", "2", "3", "4", ".", "5", "6">>,
                         <<"1", " ", "2", "3", "4", ",", "5", "6">>}
              => res = Ok(123456)

\* "1,234.56" parsed, formatted with a comma and parsed again
C14_Witness ==
    /\ Decoded
    /\ origin.body = <<"1", ",", "2", "3", "4", ".", "5", "6">>
    /\ doc.body = <<"1", "2", "3", "4", ",", "5", "6">>
    /\ prev = Some(123456)
    /\ res = Ok(123456)

(***************************************************************************)
(* The lines of an MT940 message                                           *)
(***************************************************************************)
\* a line that starts with ':', blanks before it aside
IsTagLine(line) == TrimStart(line) # <<>> /\ Head(TrimStart(line)) = ":"

\* a line of the form :tag:value
HasTag(line) == IsTagLine(line) /\ Contains(Tail(TrimStart(line)), <<":">>)

\* the text between the two colons, and the text after them
TagOf(line) ==
    Trim(SubSeq(Tail(TrimStart(line)), 1, Find(Tail(TrimStart(line)), <<":">>)[1]))

ValueOf(line) ==
    From(Tail(TrimStart(line)), Find(Tail(TrimStart(line)), <<":">>)[1] + 1)

IsEntryLine(line) == HasTag(line) /\ TagOf(line) = <<"6", "1">>

\* a :86: line or a line that does not start with ':'
IsTextLine(line) == ~IsTagLine(line) \/ (HasTag(line) /\ TagOf(line) = <<"8", "6">>)

TextOf(line) == Trim(IF IsTagLine(line) THEN ValueOf(line) ELSE line)

\* where the :61: lines stand, and where the k-th of them stands
EntryLineIndexes(lines) == {i \in 1..Len(lines) : IsEntryLine(lines[i])}

NthEntryLine(lines, k) ==
    IF k > Cardinality(EntryLineIndexes(lines)) THEN Len(lines) + 1
    ELSE CHOOSE i \in EntryLineIndexes(lines) :
            Cardinality({j \in EntryLineIndexes(lines) : j <= i}) = k

\* the texts of the text lines of a stretch of lines, in their order
RECURSIVE TextsOf(_)
TextsOf(lines) ==
    IF lines = <<>> THEN <<>>
    ELSE (IF IsTextLine(Head(lines)) THEN <<TextOf(Head(lines))>> ELSE <<>>)
         \o TextsOf(Tail(lines))

\* the lines of the message that the loop has read
LinesRead == SubSeq(origin.body, 1, Len(origin.body) - Len(doc.body))

\* the entries of the loop: those closed and the one that is open
EntriesSoFar ==
    IF IsSome(res.current_entry) THEN Append(res.entries, res.current_entry[1])
    ELSE res.entries

\* C15: while the lines of a message are read, the entries are the :61: lines read
\* so far, in their order, each with the trimmed texts of the :86: lines and of the
\* lines without ':' that stand between it and the next :61: line, whatever other
\* tag lines stand in between; such a line never fails, and before the first :61:
\* line it leaves no trace
C15_TagDispatch ==
    (doc.format = "message") =>
        /\ (IsSome(prev) /\ IsTextLine(prev[1])) => res.err = "none"
        /\ res.err = "none" =>
              /\ Len(EntriesSoFar) = Cardinality(EntryLineIndexes(LinesRead))
              /\ \A k \in 1..Len(EntriesSoFar) :
                    /\ EntriesSoFar[k].raw_61 = TrimStart(LinesRead[NthEntryLine(LinesRead, k)])
                    /\ EntriesSoFar[k].info =
                          TextsOf(SubSeq(LinesRead, NthEntryLine(LinesRead, k) + 1,
                                         NthEntryLine(LinesRead, k + 1) - 1))

\* two entries read, text and a :86: line before the first of them, a balance
\* between the first one and its two texts
C15_Witness ==
    /\ doc.format = "message"
    /\ res.err = "none"
    /\ Len(EntriesSoFar) = 2
    /\ IsTextLine(origin.body[3])
    /\ IsSome(res.closing_balance)
    /\ EntriesSoFar[1].info = <<<<"r", "e", "n", "t">>, <<"m", "o", "r", "e", " ", "t", "e", "x", "t">>>>
    /\ IsSome(prev)
    /\ IsEntryLine(prev[1])

\* the tags that the loop over the lines of a message knows
KnownTags == {<<"2", "0">>, <<"2", "5">>, <<"2", "8", "C">>, <<"6", "0", "F">>, <<"6", "0", "M">>, <<"6", "1">>, <<"6", "2", "F">>, <<"6", "2", "M">>, <<"6", "4">>, <<"8", "6">>}

IsUnknownTagLine(line) == HasTag(line) /\ TagOf(line) \notin KnownTags

\* lines without the i-th of them
RemoveAt(lines, i) == SubSeq(lines, 1, i - 1) \o SubSeq(lines, i + 1, Len(lines))

\* C16: a line with a tag outside the ten known ones never fails, and the outcome
\* for the message is the outcome for the message without that line
C16_UnknownTagSkipped ==
    (doc.format = "message") =>
        /\ (IsSome(prev) /\ IsUnknownTagLine(prev[1])) => res.err = "none"
        /\ pc = "decoded" =>
              \A i \in 1..Len(origin.body) :
                  IsUnknownTagLine(origin.body[i])
                      => first = from_string_lines(RemoveAt(origin.body, i))

\* a message is parsed that has a line with an unknown tag between a :61: line
\* and the texts of that entry
C16_Witness ==
    /\ doc.format = "message"
    /\ pc = "decoded"
    /\ first.ok
    /\ Len(origin.body) >= 5
    /\ IsEntryLine(origin.body[3])
    /\ IsUnknownTagLine(origin.body[4])
    /\ first.val.entries[1].info = <<<<"r", "e", "n", "t">>, <<"m", "o", "r", "e", " ", "t", "e", "x", "t">>>>

\* where the lines with one of the given tags stand
TagLineIndexes(lines, tags) ==
    {i \in 1..Len(lines) : HasTag(lines[i]) /\ TagOf(lines[i]) \in tags}

OpeningTags == {<<"6", "0", "F">>, <<"6", "0", "M">>}

ClosingTags == {<<"6", "2", "F">>, <<"6", "2", "M">>}

\* the balance that a stretch of lines gives: that of the line at the index that
\* pick chooses among the lines with one of the tags, none without such a line
BalanceAt(lines, tags, pick(_)) ==
    IF TagLineIndexes(lines, tags) = {} THEN None
    ELSE Some(parse_balance(ValueOf(lines[pick(TagLineIndexes(lines, tags))])).val)

SetMin(S) == CHOOSE x \in S : \A y \in S : x <= y

SetMax(S) == CHOOSE x \in S : \A y \in S : x >= y

\* C17: a message without a :25: line or without a :60F:/:60M: line is refused,
\* with BadInput unless one of its lines has an unclosed tag; while the lines are
\* read the opening balance is that of the first :60F:/:60M: line read and the
\* closing balance that of the last :62F:/:62M: line read, and so they are in the
\* message that is parsed
C17_RequiredFields ==
    (doc.format = "message") =>
        /\ res.err = "none" =>
              /\ res.opening_balance = BalanceAt(LinesRead, OpeningTags, SetMin)
              /\ res.closing_balance = BalanceAt(LinesRead, ClosingTags, SetMax)
        /\ pc = "decoded" =>
              /\ (\/ TagLineIndexes(origin.body, {<<"2", "5">>}) = {}
                  \/ TagLineIndexes(origin.body, OpeningTags) = {})
                    => /\ ~first.ok
                       /\ \/ first.err = "BadInput"
                          \/ \E i \in 1..Len(origin.body) :
                                IsTagLine(origin.body[i]) /\ ~HasTag(origin.body[i])
              /\ first.ok =>
                    /\ Some(first.val.opening_balance)
                          = BalanceAt(origin.body, OpeningTags, SetMin)
                    /\ first.val.closing_balance
                          = BalanceAt(origin.body, ClosingTags, SetMax)

\* a message is parsed that has :60F:, then :60M:, then an entry, :62M:, :62F: and
\* one more :60M: line
C17_Witness ==
    /\ doc.format = "message"
    /\ pc = "decoded"
    /\ first.ok
    /\ origin.body = <<MsgAccount, MsgOpeningA, MsgOpeningB, MsgEntryB, MsgInfo,
                       MsgClosingB, MsgClosingA, MsgOpeningB>>
    /\ first.val.opening_balance.dc_mark = "C"
    /\ first.val.closing_balance[1].amount = <<"1", ",", "5", "0">>

(***************************************************************************)
(* The blocks of an MT940 text                                             *)
(***************************************************************************)
\* the lines of the text, and those that the loop has read
FramingLines == BufLines(origin.body)

FramingRead == SubSeq(FramingLines, 1, Len(FramingLines) - Len(doc.body))

\* the two styles of a block: how one opens, and how a line that ends one starts
StyleOpener == [Curly |-> <<"{", "4", ":">>, Paren |-> <<"(", "4", ":">>]

StyleClosers == [Curly |-> {<<"-", "}">>, <<"}">>}, Paren |-> {<<"-", ")">>, <<")">>}]

\* the style whose opener stands first in a text, "None" for a text without one
FirstOpenerKind(text) ==
    IF ~Contains(text, StyleOpener.Curly) /\ ~Contains(text, StyleOpener.Paren) THEN "None"
    ELSE IF ~Contains(text, StyleOpener.Paren) THEN "Curly"
    ELSE IF ~Contains(text, StyleOpener.Curly) THEN "Paren"
    ELSE IF Find(text, StyleOpener.Curly)[1] < Find(text, StyleOpener.Paren)[1] THEN "Curly"
    ELSE "Paren"

\* a line ends a block of the style
ClosesStyle(line, kind) == \E p \in StyleClosers[kind] : StartsWith(Trim(line), p)

\* the style is that of the opener that stands first in the text read so far
StyleIsFirstOpener ==
    (doc.format = "framing") =>
        res.block_kind = FirstOpenerKind(Join(FramingRead, <<"\n">>))

\* one line of the text is read: a style that is there stays; a block opens only
\* at a line with the opener of that style and ends only at a line that starts
\* with a closer of that style; outside a block a line without that opener changes
\* nothing, and inside a block a line that is not blank and does not start with
\* that closer is one more line of the body, whatever it has of the other style
StyleStep ==
    (doc.format = "framing" /\ pc = "lines" /\ pc' = "lines" /\ res.block_kind # "None") =>
        /\ res'.block_kind = res.block_kind
        /\ (~res.in_text_block /\ res'.in_text_block)
              <=> (~res.in_text_block
                      /\ Contains(Head(doc.body), StyleOpener[res.block_kind]))
        /\ (res.in_text_block /\ ~res'.in_text_block)
              => ClosesStyle(Head(doc.body), res.block_kind)
        /\ (~res.in_text_block /\ ~Contains(Head(doc.body), StyleOpener[res.block_kind]))
              => res' = res
        /\ (/\ res.in_text_block
            /\ ~IsBlank(Head(doc.body))
            /\ ~ClosesStyle(Head(doc.body), res.block_kind))
              => res' = [res EXCEPT !.message_lines = Append(@, Head(doc.body))]

\* C18: the style of the blocks is chosen once, by the opener that stands first in
\* the text, and never changes; from then on only the opener of that style starts
\* a block and only a closer of that style ends one, and an opener or a closer of
\* the other style is text like any other
C18_StyleFixed == []StyleIsFirstOpener /\ [][StyleStep]_vars

\* in a block that opened at "(4:{4:" the line "-}" has been read and is the last
\* line of the body
C18_Witness ==
    /\ doc.format = "framing"
    /\ pc = "lines"
    /\ res.block_kind = "Paren"
    /\ res.in_text_block
    /\ prev = Some(<<"-", "}">>)
    /\ res.message_lines # <<>>
    /\ res.message_lines[Len(res.message_lines)] = <<"-", "}">>
    /\ Contains(origin.body, <<"(", "4", ":", "{", "4", ":">>)

\* the text with one more line, which ends a block of the style
WithCloser(text, kind) ==
    (IF text # <<>> /\ text[Len(text)] # "\n" THEN text \o <<"\n">> ELSE text)
        \o (IF kind = "Curly" THEN <<"-", "}">> ELSE <<"-", ")">>)

\* C19: when the text ends inside a block that has a line in its body, the outcome
\* is that of the same text with the block closed; a text without an opener,
\* the empty one among them, is refused with BadInput
C19_EndOfInput ==
    (doc.format = "framing" /\ pc = "decoded") =>
        /\ (res.err = "none" /\ res.in_text_block /\ res.message_lines # <<>>)
              => first = Mt940Data_parse(WithCloser(origin.body, res.block_kind))
        /\ (~Contains(origin.body, StyleOpener.Curly)
               /\ ~Contains(origin.body, StyleOpener.Paren))
              => first = Err("BadInput")

\* a text whose only block is not closed is parsed
C19_Witness ==
    /\ doc.format = "framing"
    /\ pc = "decoded"
    /\ res.in_text_block
    /\ res.messages = <<>>
    /\ Len(res.message_lines) >= 2
    /\ first.ok
    /\ first.val.account_id = <<"A", "1">>

(***************************************************************************)
(* The value of a :61: line                                                *)
(***************************************************************************)
\* the number that two digits write
TwoDigits(s) == DigitVal(s[1]) * 10 + DigitVal(s[2])

\* a character of the amount run
IsAmountChar(c) == IsAsciiDigit(c) \/ c \in {",", "."}

\* what an entry has read of the value, from its start: the value date, the entry
\* date if there is one, the mark, the funds code if there is one, the amount
EntryRead(e) ==
    e.value_date \o (IF IsSome(e.entry_date) THEN e.entry_date[1] ELSE <<>>)
        \o <<e.dc_mark>> \o e.funds_code \o e.amount

\* where the mark stands in a value
MarkAt(v) == IF Len(v) >= 10 /\ AllDigits(SubSeq(v, 7, 10)) THEN 11 ELSE 7

\* the date that YYMMDD writes, the year by the 79/80 rule
CenturyDate(s) ==
    [y |-> IF TwoDigits(SubSeq(s, 1, 2)) >= 80 THEN 1900 + TwoDigits(SubSeq(s, 1, 2))
           ELSE 2000 + TwoDigits(SubSeq(s, 1, 2)),
     m |-> TwoDigits(SubSeq(s, 3, 4)), d |-> TwoDigits(SubSeq(s, 5, 6))]

\* C20: an entry that is read from the value of a :61: line is the start of the
\* value cut into the six characters of the value date, the next four as the
\* entry date exactly when they are four digits, one character of mark, the next
\* one as the funds code exactly when it is a letter other than 'C' and 'D', and
\* the longest run of digits, ',' and '.', which is not empty; the transaction of
\* such an entry has the value date with the year 20YY up to 79 and 19YY from 80
\* on, and as booking date the value date without an entry date, else the month
\* and day of the entry date in the year of the value date; "2301010102C100,00"
\* gives 2023-01-01, 2023-01-02, Credit, 10000
C20_EntryConversion ==
    (doc.format = "entry") =>
        /\ (pc # "input" /\ res.ok) =>
              /\ StartsWith(Trim(origin.body), EntryRead(res.val))
              /\ Len(res.val.value_date) = 6
              /\ IsSome(res.val.entry_date) <=> MarkAt(Trim(origin.body)) = 11
              /\ res.val.dc_mark = Trim(origin.body)[MarkAt(Trim(origin.body))]
              /\ IsSome(res.val.funds_code)
                    <=> /\ Len(Trim(origin.body)) > MarkAt(Trim(origin.body))
                        /\ IsAsciiAlphabetic(Trim(origin.body)[MarkAt(Trim(origin.body)) + 1])
                        /\ Trim(origin.body)[MarkAt(Trim(origin.body)) + 1] \notin {"C", "D"}
              /\ res.val.amount # <<>>
              /\ \A i \in 1..Len(res.val.amount) : IsAmountChar(res.val.amount[i])
              /\ Len(Trim(origin.body)) > Len(EntryRead(res.val))
                    => ~IsAmountChar(Trim(origin.body)[Len(EntryRead(res.val)) + 1])
        /\ (pc = "decoded" /\ first.ok) =>
              /\ AllDigits(res.val.value_date)
                    => first.val.value_date = Some(CenturyDate(res.val.value_date))
              /\ first.val.booking_date =
                    IF ~IsSome(res.val.entry_date) THEN first.val.value_date[1]
                    ELSE [y |-> first.val.value_date[1].y,
                          m |-> TwoDigits(SubSeq(res.val.entry_date[1], 1, 2)),
                          d |-> TwoDigits(SubSeq(res.val.entry_date[1], 3, 4))]
              /\ first.val.direction = (IF res.val.dc_mark = "C" THEN "Credit" ELSE "Debit")
        /\ (pc = "decoded" /\ origin.body = <<"2", "3", "0", "1", "0", "1", "0", "1", "0", "2", "C", "1", "0", "0", ",", "0", "0">>) =>
              /\ first.ok
              /\ first.val.value_date = Some([y |-> 2023, m |-> 1, d |-> 1])
              /\ first.val.booking_date = [y |-> 2023, m |-> 1, d |-> 2]
              /\ first.val.direction = "Credit"
              /\ first.val.amount = 10000

\* a value of the year 99 with the entry date 1231, a funds code and a reference
\* is read and converted
C20_Witness ==
    /\ doc.format = "entry"
    /\ pc = "decoded"
    /\ first.ok
    /\ res.val.funds_code = Some("R")
    /\ res.val.dc_mark = "D"
    /\ first.val.value_date = Some([y |-> 1999, m |-> 12, d |-> 30])
    /\ first.val.booking_date = [y |-> 1999, m |-> 12, d |-> 31]
    /\ first.val.amount = 550
    /\ IsSome(res.val.bank_reference)

\* no digit stands where the amount of a :61: value starts: after the mark, and
\* after the funds code when there is one
NoAmountDigits(v) ==
    LET at == IF /\ Len(v) > MarkAt(v)
                 /\ IsAsciiAlphabetic(v[MarkAt(v) + 1])
                 /\ v[MarkAt(v) + 1] \notin {"C", "D"}
              THEN MarkAt(v) + 2 ELSE MarkAt(v) + 1
    IN Len(v) >= MarkAt(v)
       /\ \A i \in at..Len(v) :
             IsAsciiDigit(v[i]) => \E j \in at..(i - 1) : ~IsAmountChar(v[j])

\* C21: a :61: value with a mark and no digit of an amount after it (and after the
\* funds code) is refused with BadInput, by the reader of the line or by the
\* conversion of the entry
C21_NoAmountBadInput ==
    (doc.format = "entry" /\ NoAmountDigits(Trim(origin.body))) =>
        /\ (pc = "entry" /\ ~res.ok) => res = Err("BadInput")
        /\ pc = "decoded" => first = Err("BadInput")

(***************************************************************************)
(* The counterparty of an MT940 entry                                      *)
(***************************************************************************)
\* where the tokens of a text stand that have the shape of an IBAN
TokenPlaces(text) ==
    {i \in 1..Len(SplitWhitespace(text)) :
        IsSome(normalize_and_check_iban(SplitWhitespace(text)[i]))}

HasToken(text) == TokenPlaces(text) # {}

\* the first such token of a text, cleaned and in capitals
TokenOf(text) ==
    normalize_and_check_iban(SplitWhitespace(text)[SetMin(TokenPlaces(text))])[1]

\* more text follows the first token
HasTextAfterToken(text) ==
    HasToken(text) /\ SetMin(TokenPlaces(text)) < Len(SplitWhitespace(text))

\* the words after the first token
TextAfterToken(text) ==
    Join(SubSeq(SplitWhitespace(text), SetMin(TokenPlaces(text)) + 1,
                Len(SplitWhitespace(text))), <<" ">>)

\* the lines of the entry with a token and text after it, those with a token, and
\* those after the first line with a token that are not blank and have no token
LinesWithBoth == {i \in 1..Len(res.info) : HasTextAfterToken(res.info[i])}

LinesWithToken == {i \in 1..Len(res.info) : HasToken(res.info[i])}

NameLines ==
    {j \in (SetMin(LinesWithToken) + 1)..Len(res.info) :
        Trim(res.info[j]) # <<>> /\ ~HasToken(res.info[j])}

RefHasToken(ref) == IsSome(ref) /\ HasToken(ref[1])

\* C22: the counterparty of an entry is (a) the token and the text after it of the
\* first line of text that has both; (b) without such a line, the token of the
\* first line that has one, with the next line that is not blank and has no token
\* as the name, or without a name; (c) without a token in the lines, the token of
\* the customer reference, and without one there that of the bank reference;
\* without a token anywhere, neither id nor name
C22_CounterpartyHeuristic ==
    (doc.format = "counterparty" /\ pc = "decoded") =>
        IF LinesWithBoth # {}
        THEN first = <<Some(TokenOf(res.info[SetMin(LinesWithBoth)])),
                       Some(TextAfterToken(res.info[SetMin(LinesWithBoth)]))>>
        ELSE IF LinesWithToken # {}
        THEN first = <<Some(TokenOf(res.info[SetMin(LinesWithToken)])),
                       IF NameLines = {} THEN None
                       ELSE Some(Trim(res.info[SetMin(NameLines)]))>>
        ELSE IF RefHasToken(res.customer_reference)
        THEN first[1] = Some(TokenOf(res.customer_reference[1]))
        ELSE IF RefHasToken(res.bank_reference)
        THEN first[1] = Some(TokenOf(res.bank_reference[1]))
        ELSE first = <<None, None>>

\* an entry with a token in both references, whose lines are one with a token
\* alone, a blank one and one with a token and a name: the last line wins
C22_Witness ==
    /\ doc.format = "counterparty"
    /\ pc = "decoded"
    /\ RefHasToken(res.customer_reference)
    /\ RefHasToken(res.bank_reference)
    /\ res.info = <<<<"D", "E", "1", "2", "A", "B", "C", "D", "E", "F", "G", "H", "I", "J", "K">>, <<>>, <<"t", "o", " ", "(", "d", "e", "1", "2", "a", "b", "c", "d", "e", "f", "g", "h", "i", "j", "k", ")", ",", " ", "J", "a", "n", "e">>>>
    /\ first = <<Some(<<"D", "E", "1", "2", "A", "B", "C", "D", "E", "F", "G", "H", "I", "J", "K">>), Some(<<"J", "a", "n", "e">>)>>

(***************************************************************************)
(* The lines that write_mt940 writes                                       *)
(***************************************************************************)
\* what the writeln! calls of write_mt940 wrote for the statement that was written,
\* one text for each call
WrittenLines == Mt940Lines(prev[1])

\* the lines between the :60F: line and the end: those of the transactions
WrittenTxLines ==
    SubSeq(WrittenLines, 6,
           Len(WrittenLines) - (IF IsSome(prev[1].closing_balance) THEN 2 ELSE 1))

\* a transaction has something to say in a :86: line
HasInfoText(tx) ==
    \/ IsSome(tx.counterparty) /\ Trim(tx.counterparty[1]) # <<>>
    \/ IsSome(tx.counterparty_name) /\ Trim(tx.counterparty_name[1]) # <<>>
    \/ Trim(tx.description) # <<>>

\* where the :61: line of the k-th transaction stands among the lines of the
\* transactions, when each one has its :61: line and its :86: line if it has text
RECURSIVE LineOfTx(_, _)
LineOfTx(txs, k) ==
    IF k = 1 THEN 1
    ELSE LineOfTx(txs, k - 1) + (IF HasInfoText(txs[k - 1]) THEN 2 ELSE 1)

\* C23: what write_mt940 writes is, one line for each writeln!: the opener, :20:, :25:
\* with the account id, :28C:, one :60F: line, then for each transaction in the
\* order of the list its :61: line and right after it one :86: line exactly when
\* its counterparty id, its name or its description is not blank, then a :62F:
\* line exactly when there is a closing balance, then the closer
C23_EncodeStructure ==
    (pc = "input" /\ doc.format = "mt940" /\ IsSome(prev)) =>
        /\ doc.body = WriteLn(WrittenLines)
        /\ Len(WrittenLines) >= 6
        /\ WrittenLines[1] = <<"{", "4", ":">>
        /\ StartsWith(WrittenLines[2], <<":", "2", "0", ":">>)
        /\ WrittenLines[3] = <<":", "2", "5", ":">> \o prev[1].account_id
        /\ StartsWith(WrittenLines[4], <<":", "2", "8", "C", ":">>)
        /\ StartsWith(WrittenLines[5], <<":", "6", "0", "F", ":">>)
        /\ WrittenLines[Len(WrittenLines)] = <<"-", "}">>
        /\ IsSome(prev[1].closing_balance)
              => StartsWith(WrittenLines[Len(WrittenLines) - 1], <<":", "6", "2", "F", ":">>)
        /\ Len(WrittenTxLines) =
              LineOfTx(prev[1].transactions, Len(prev[1].transactions) + 1) - 1
        /\ \A k \in 1..Len(prev[1].transactions) :
              /\ WrittenTxLines[LineOfTx(prev[1].transactions, k)]
                    = <<":", "6", "1", ":">> \o format_61_line(prev[1].transactions[k])
              /\ HasInfoText(prev[1].transactions[k])
                    => StartsWith(WrittenTxLines[LineOfTx(prev[1].transactions, k) + 1],
                                  <<":", "8", "6", ":">>)

\* a statement with a closing balance is written whose first transaction has a
\* :86: line and whose second one has none
C23_Witness ==
    /\ pc = "input"
    /\ doc.format = "mt940"
    /\ IsSome(prev)
    /\ IsSome(prev[1].closing_balance)
    /\ Len(prev[1].transactions) = 2
    /\ HasInfoText(prev[1].transactions[1])
    /\ ~HasInfoText(prev[1].transactions[2])
    /\ Len(WrittenLines) = 10

(***************************************************************************)
(* The amount cells of a CSV record                                        *)
(***************************************************************************)
\* the debit and the credit amount cell of a record of the table
DebitCell == origin.body[10]

CreditCell == origin.body[14]

\* C24: a record of the table whose debit amount cell alone is not blank gives a
\* Debit transaction with that amount, one whose credit amount cell alone is not
\* blank a Credit transaction with that amount; with both cells or neither of
\* them filled the record is refused, with AmountSideConflict when its date is one
C24_CsvDirection ==
    (doc.format = "datarow" /\ pc = "decoded") =>
        /\ (~IsBlank(DebitCell) /\ IsBlank(CreditCell) /\ res.ok)
              => /\ res.val.direction = "Debit"
                 /\ Ok(res.val.amount) = parse_amount(DebitCell)
        /\ (IsBlank(DebitCell) /\ ~IsBlank(CreditCell) /\ res.ok)
              => /\ res.val.direction = "Credit"
                 /\ Ok(res.val.amount) = parse_amount(CreditCell)
        /\ (IsBlank(DebitCell) # IsBlank(CreditCell)
               /\ ParseDmy(origin.body[2]).ok
               /\ parse_amount(IF IsBlank(DebitCell) THEN CreditCell ELSE DebitCell).ok)
              => res.ok
        /\ (IsBlank(DebitCell) = IsBlank(CreditCell))
              => /\ ~res.ok
                 /\ ParseDmy(origin.body[2]).ok => res = Err("AmountSideConflict")

\* a record with the debit amount " 1 234,56" and a blank in the credit cell is a
\* Debit transaction of 123456
C24_Witness ==
    /\ doc.format = "datarow"
    /\ pc = "decoded"
    /\ CreditCell = <<" ">>
    /\ res.ok
    /\ res.val.direction = "Debit"
    /\ res.val.amount = 123456

\* the debit and the credit cell of a record of the footer, trimmed
FooterDebit == Trim(origin.body[8])

FooterCredit == Trim(origin.body[12])

\* the amount that a cell of the footer holds, the comma read as the point
FooterAmount(cell) == parse_amount(Replace(cell, ",", <<".">>))

\* a cell holds no amount or an amount of zero, in whatever notation
IsZeroCell(cell) == cell = <<>> \/ FooterAmount(cell) = Ok(0)

\* C26: the balance of a record of the footer is minus the debit amount when the
\* debit cell alone is not zero, the credit amount when the credit cell alone is
\* not zero, 0 when both are empty or zero, and the record is refused when both
\* are not zero; zero in any notation that is read as an amount counts as zero
C26_FooterBalance ==
    (doc.format = "footerrow" /\ pc = "decoded") =>
        /\ (~IsZeroCell(FooterDebit) /\ IsZeroCell(FooterCredit) /\ FooterAmount(FooterDebit).ok)
              => res = Ok(0 - FooterAmount(FooterDebit).val)
        /\ (IsZeroCell(FooterDebit) /\ ~IsZeroCell(FooterCredit) /\ FooterAmount(FooterCredit).ok)
              => res = FooterAmount(FooterCredit)
        /\ (IsZeroCell(FooterDebit) /\ IsZeroCell(FooterCredit)) => res = Ok(0)
        /\ (~IsZeroCell(FooterDebit) /\ ~IsZeroCell(FooterCredit)) => ~res.ok

(***************************************************************************)
(* The sections of a CSV file                                              *)
(***************************************************************************)
\* the rows of the file that hold the label of the booking date
LabelRows ==
    {i \in 1..Len(origin.body) :
        \E j \in 1..Len(origin.body[i]) : Contains(origin.body[i][j], <<"Data provodki">>)}

\* the rows under the table header that match a marker of the footer
FooterRowsUnder(h) == {i \in (h + 2)..Len(origin.body) : is_footer_row(origin.body[i])}

\* the rows of the four sections one after the other, then the rows not yet read
SectionsRead ==
    first.header_rows \o first.headers_row \o first.subheaders_row
        \o first.data_rows \o first.footer_rows

\* the sections of a file with the label in row h, once the loop is over
SectionsUnder(h) ==
    /\ first.header_rows = SubSeq(origin.body, 1, h - 1)
    /\ first.headers_row = Some(origin.body[h])
    /\ IF h = Len(origin.body)
       THEN first.subheaders_row = None /\ res = Err("Header")
       ELSE /\ first.subheaders_row = Some(origin.body[h + 1])
            /\ IF FooterRowsUnder(h) = {}
               THEN /\ first.data_rows = SubSeq(origin.body, h + 2, Len(origin.body))
                    /\ first.footer_rows = <<>>
                    /\ res = Err("Header")
               ELSE /\ first.data_rows = SubSeq(origin.body, h + 2, Least(FooterRowsUnder(h)) - 1)
                    /\ first.footer_rows
                          = SubSeq(origin.body, Least(FooterRowsUnder(h)), Len(origin.body))

\* C25: the rows of a CSV file fall, in the order of the file, into the rows
\* before the first row with the label of the booking date, that row and the one
\* after it, the rows of operations, and the footer from the first later row with
\* a marker of the footer to the end; the file is refused with a Header error when
\* no row has the label, when the file ends with that row, or when no row of the
\* footer is found
C25_CsvSections ==
    doc.format = "rows" =>
        /\ SectionsRead \o doc.body = origin.body
        /\ pc = "decoded" =>
              /\ IF LabelRows = {}
                 THEN first.header_rows = origin.body /\ res = Err("Header")
                 ELSE SectionsUnder(Least(LabelRows))
              /\ res = CsvData_parse(origin.body)

\* a file is decoded whose footer has an operation after its first row, and whose
\* rows above the table have a row with a marker of the footer
C25_Witness ==
    /\ doc.format = "rows"
    /\ pc = "decoded"
    /\ res.ok
    /\ \E i \in 2..Len(first.footer_rows) : ~is_footer_row(first.footer_rows[i])
    /\ first.data_rows # <<>>
    /\ first.header_rows # <<>>

(***************************************************************************)
(* The currency and the period of a camt.053 statement                     *)
(***************************************************************************)
\* the places a currency is looked for, in their order, each an Option
CurrencySources ==
    <<origin.body.account.currency,
      IF origin.body.balances = <<>> THEN None
      ELSE Some(origin.body.balances[1].amount.currency),
      IF origin.body.entries = <<>> THEN None
      ELSE Some(origin.body.entries[1].amount.currency)>>

CurrencyPresent == {i \in 1..3 : IsSome(CurrencySources[i])}

\* C27: the currency of a camt.053 statement is that of the account when it names
\* one, otherwise that of the first balance, otherwise that of the first entry,
\* whatever the later places hold; with none of them the decode fails with
\* InvalidCurrency
C27_CurrencyChain ==
    (doc.format = "stmt" /\ pc = "decoded") =>
        IF CurrencyPresent = {} THEN res = Err("InvalidCurrency")
        ELSE /\ res.ok => res.val.currency
                             = parse_currency(CurrencySources[Least(CurrencyPresent)][1])
             /\ ~res.ok => res.err # "InvalidCurrency"

\* a statement whose account names no currency, whose first balance is in CNY and
\* whose first entry is in RUB is a statement in CNY
C27_Witness ==
    /\ doc.format = "stmt"
    /\ pc = "decoded"
    /\ res.ok
    /\ ~IsSome(origin.body.account.currency)
    /\ origin.body.balances # <<>>
    /\ origin.body.entries # <<>>
    /\ origin.body.entries[1].amount.currency = <<"R", "U", "B">>
    /\ res.val.currency = Currency("CNY", <<>>)

\* <FrToDt> holds both dates
HasGivenPeriod ==
    /\ IsSome(origin.body.period)
    /\ IsSome(origin.body.period[1].from)
    /\ IsSome(origin.body.period[1].to)

\* the booking dates of the entries, read
BookingDates ==
    {parse_camt_date_to_naive(origin.body.entries[i].booking_date.date).val :
        i \in 1..Len(origin.body.entries)}

\* C28: with both dates in <FrToDt> the period of a camt.053 statement is those
\* two dates; otherwise it runs from the earliest to the latest booking date of
\* the entries; with neither both dates nor an entry the decode fails with
\* BadInput
C28_Period ==
    (doc.format = "stmt" /\ pc = "decoded") =>
        /\ (res.ok /\ HasGivenPeriod)
              => /\ Ok(res.val.period_from)
                      = parse_camt_date_to_naive(origin.body.period[1].from[1])
                 /\ Ok(res.val.period_until)
                      = parse_camt_date_to_naive(origin.body.period[1].to[1])
        /\ (res.ok /\ ~HasGivenPeriod)
              => /\ res.val.period_from \in BookingDates
                 /\ res.val.period_until \in BookingDates
                 /\ \A d \in BookingDates :
                       /\ DateOrd(res.val.period_from) <= DateOrd(d)
                       /\ DateOrd(d) <= DateOrd(res.val.period_until)
        /\ (~HasGivenPeriod /\ origin.body.entries = <<>> /\ CurrencyPresent # {})
              => res = Err("BadInput")

\* a statement with the start of the period only, an entry booked on 2024-02-29
\* and then one booked on 2023-01-03 runs from the one day to the other
C28_Witness ==
    /\ doc.format = "stmt"
    /\ pc = "decoded"
    /\ res.ok
    /\ IsSome(origin.body.period)
    /\ IsSome(origin.body.period[1].from)
    /\ ~IsSome(origin.body.period[1].to)
    /\ Len(origin.body.entries) = 2
    /\ res.val.period_from = [y |-> 2023, m |-> 1, d |-> 3]
    /\ res.val.period_until = [y |-> 2024, m |-> 2, d |-> 29]
    /\ origin.body.entries[2].booking_date.date = <<"2", "0", "2", "3", "-", "0", "1", "-", "0", "3">>

(***************************************************************************)
(* Booking dates through the MT940 encoder                                 *)
(***************************************************************************)
\* the dates of a transaction lie in the years that two digits can name
InTwoDigitYears(tx) ==
    /\ tx.booking_date.y \in 1980..2079
    /\ IsSome(tx.value_date) => tx.value_date[1].y \in 1980..2079

\* C29: the MT940 text written from a Statement whose dates lie in the years 1980
\* to 2079 decodes to transactions with the booking dates of the Statement, also
\* when a transaction is booked and valued in different years
C29_BookingDateKept ==
    (Decoded /\ doc.format = "mt940" /\ IsSome(prev)
        /\ \A i \in 1..Len(prev[1].transactions) : InTwoDigitYears(prev[1].transactions[i]))
    => /\ res.ok
       /\ Len(res.val.transactions) = Len(prev[1].transactions)
       /\ \A i \in 1..Len(prev[1].transactions) :
             res.val.transactions[i].booking_date = prev[1].transactions[i].booking_date

(***************************************************************************)
(* Values of MT940 with characters of more than one byte                   *)
(***************************************************************************)
\* C30: decoding MT940 never panics: the value of a balance or of a :61: line,
\* short or with a character of more than one byte where the value is sliced,
\* is read into a message or refused with a ParseError
C30_NoPanic == doc.format \in {"60F", "61"} => pc # "panicked"

====
